---- MODULE Spec2Model ----
(***************************************************************************)
(* Auto-unseal manager (vault/seal_autoseal.go): the health-check loop,    *)
(* the seal configuration cache and store, and the stored-key and          *)
(* recovery-key lifecycle.                                                 *)
(***************************************************************************)
EXTENDS Integers, Sequences, FiniteSets, TLC

\* ------------------------------------------------------------------ bounds
NumSeals == 2      \* at most this many configured seal backends
MaxStarts == 2     \* StartHealthCheck is called at most this many times
MaxKeyVer == 2     \* the seal backend's key is rotated up to this version

\* ------------------------------------------------------- program constants
\* polling intervals of the health ticker, in minutes
sealHealthTestIntervalNominal == 10
sealHealthTestIntervalUnhealthy == 1

Seals == 1..NumSeals
Loops == 1..MaxStarts
Callers == {"c1", "c2"}   \* threads of the server that call into the manager
NoChan == 0               \* a nil channel
NoTicker == 0             \* no ticker yet, or the ticker was stopped

\* what a backend does with one probe: Encrypt returns an error, Encrypt
\* blocks until the context's deadline, Decrypt returns an error, Decrypt blocks
\* until the deadline, Decrypt returns another plaintext, full round trip
ProbeOutcomes == {"encErr", "encTimeout", "decErr", "decTimeout", "mismatch", "ok"}

VARIABLES
    \* ---- health monitor
    nseals,           \* number of configured backends (GetAllSealInfoByPriority)
    Healthy,          \* w.Healthy of every backend
    HcLock,           \* w.HcLock of every backend: 0 free, else the loop holding it
    allSealsHealthy,  \* d.allSealsHealthy
    healthCheckStop,  \* d.healthCheckStop: NoChan or a channel
    closedChans,      \* the stop channels that were closed
    nchans,           \* channels made so far; loop l owns channel l and ticker l
    threads,          \* the caller threads of this run
    callerPc,         \* position of each caller thread inside StartHealthCheck
    loopPc,           \* goroutine of loop l: "none", "select", "check", "probe", "exited"
    probed,           \* loop l, current tick: number of backends probed so far
    anyUnhealthy,     \* loop l: the tick's anyUnhealthy local
    tickPending,      \* loop l: a tick waits in healthCheck.C (buffer of one)
    interval,         \* loop l: current period of its ticker, NoTicker when it has none
    ticksAfterStop,   \* loop l: ticks begun after its stop channel was closed (0, 1, many)
    ctxDone,          \* loop l, current tick: the tick's context has passed its deadline
    \* ---- manager, configuration and keys
    core,             \* d.core != nil
    sealed,           \* d.core.Sealed()
    barrierSealConfigType,  \* d.barrierSealConfigType
    barrierConfig,    \* d.barrierConfig, the cached barrier seal config
    recoveryConfig,   \* d.recoveryConfig, the cached recovery seal config
    physical,         \* durable storage, one entry per fixed path
    keyVer,           \* the key version the seal backend encrypts with
    callerConf,       \* the conf local of a thread inside BarrierConfig or SetBarrierConfig
    crashed,          \* a runtime panic unwound the caller
    last              \* the last operation, its inputs and its result

healthVars == <<nseals, Healthy, HcLock, allSealsHealthy, healthCheckStop, closedChans,
                nchans, threads, callerPc, loopPc, probed, anyUnhealthy, tickPending,
                interval, ticksAfterStop, ctxDone>>
storeVars == <<core, sealed, barrierSealConfigType, barrierConfig, recoveryConfig,
               physical, keyVer>>
vars == <<healthVars, storeVars, callerConf, crashed, last>>

\* the record kept in last; unused fields hold their defaults
NilConfig == [Type |-> "", id |-> 0]     \* (*SealConfig)(nil)
NilBytes == <<-1>>                      \* a nil []byte, no byte string
\* The identity of a *SealConfig object, apart from its field values: the nil
\* pointer, the object the caller passed, the object the cache held on entry,
\* the object just unmarshalled from storage, and copies of these.
Obj(name) == [of |-> name, copy |-> FALSE]
NoObj == Obj("nil")
ArgObj == Obj("arg")
CachedObj == Obj("cached")
LoadedObj == Obj("loaded")
\* (*SealConfig).Clone: a new object with the field values of o
Clone(o) == [o EXCEPT !.copy = TRUE]

NoOp == [op |-> "none", wasStop |-> NoChan, err |-> "",
         retConf |-> NilConfig, retKey |-> NilBytes, legacyRead |-> FALSE,
         rootAttempted |-> FALSE, puts |-> {}, retHealthy |-> FALSE,
         heldObj |-> NoObj, cacheObj |-> NoObj]

Min(a, b) == IF a < b THEN a ELSE b

\* ============================================================ construction

SealConfigTypeMultiseal == "multiseal"
SealConfigTypeRecovery == "recovery"
DeclaredSealType == "awskms"    \* Seals[0].Type of the single configured backend

\* a constructor that takes the first backend's type whatever their number
ComputeSealConfigType_FirstBackend(n) == DeclaredSealType
\* NewAutoSeal: multiseal with more than one backend, else the backend's type
ComputeSealConfigType(n) ==
    IF n > 1 THEN SealConfigTypeMultiseal ELSE DeclaredSealType

\* storage entries of the two key paths
AbsentEntry == [kind |-> "absent", ver |-> 0, pt |-> <<>>]
WrappedEntry(v, pt) == [kind |-> "wrapped", ver |-> v, pt |-> pt]

EmptyStorage ==
    [StoredBarrierKeysPath |-> AbsentEntry,
     recoveryKeyPath |-> AbsentEntry,
     barrierSealConfigPath |-> NilConfig,
     recoverySealConfigPlaintextPath |-> NilConfig,
     recoverySealConfigPath |-> NilConfig]

\* =========================================================== health monitor

\* StopHealthCheck's effect on the closed channels: close(d.healthCheckStop)
\* when it is not nil
CloseStop_NoClose(closed, stop) == closed
CloseStop_NoNilCheck(closed, stop) == closed \cup {stop}
CloseStop(closed, stop) == IF stop # NoChan THEN closed \cup {stop} ELSE closed

\* a Stop that closes the channel and leaves it in d.healthCheckStop
StopHealthCheck_KeepsChannel(c) ==
    /\ ~crashed
    /\ c \in threads
    /\ callerPc[c] = "idle"
    /\ closedChans' = CloseStop(closedChans, healthCheckStop)
    /\ last' = [NoOp EXCEPT !.op = "StopHealthCheck", !.wasStop = healthCheckStop]
    /\ UNCHANGED <<nseals, Healthy, HcLock, allSealsHealthy, healthCheckStop, nchans,
                   threads, callerPc, loopPc, probed, anyUnhealthy, tickPending,
                   interval, ticksAfterStop, ctxDone, storeVars, callerConf, crashed>>

\* a Stop that also resets the aggregate flag
StopHealthCheck_ClearsAggregate(c) ==
    /\ ~crashed
    /\ c \in threads
    /\ callerPc[c] = "idle"
    /\ closedChans' = CloseStop(closedChans, healthCheckStop)
    /\ healthCheckStop' = NoChan
    /\ allSealsHealthy' = FALSE
    /\ last' = [NoOp EXCEPT !.op = "StopHealthCheck", !.wasStop = healthCheckStop]
    /\ UNCHANGED <<nseals, Healthy, HcLock, nchans, threads, callerPc,
                   loopPc, probed, anyUnhealthy, tickPending, interval,
                   ticksAfterStop, ctxDone, storeVars, callerConf, crashed>>

\* func (d *autoSeal) Healthy(): d.allSealsHealthy read under d.hcLock.RLock()
autoSeal_Healthy(c) ==
    /\ ~crashed
    /\ c \in threads
    /\ callerPc[c] = "idle"
    /\ last' = [NoOp EXCEPT !.op = "Healthy", !.retHealthy = allSealsHealthy]
    /\ UNCHANGED <<healthVars, storeVars, callerConf, crashed>>

\* func (d *autoSeal) StopHealthCheck(): one critical section under d.hcLock
StopHealthCheck(c) ==
    /\ ~crashed
    /\ c \in threads
    /\ callerPc[c] = "idle"
    /\ closedChans' = CloseStop(closedChans, healthCheckStop)
    /\ healthCheckStop' = NoChan
    /\ last' = [NoOp EXCEPT !.op = "StopHealthCheck", !.wasStop = healthCheckStop]
    /\ UNCHANGED <<nseals, Healthy, HcLock, allSealsHealthy, nchans, threads, callerPc,
                   loopPc, probed, anyUnhealthy, tickPending, interval,
                   ticksAfterStop, ctxDone, storeVars, callerConf, crashed>>

\* StartHealthCheck, first critical section: d.StopHealthCheck()
StartHealthCheck_Stop(c) ==
    /\ ~crashed
    /\ c \in threads
    /\ callerPc[c] = "idle"
    /\ nchans + Cardinality({x \in Callers : callerPc[x] = "spawn"}) < MaxStarts
    /\ closedChans' = CloseStop(closedChans, healthCheckStop)
    /\ healthCheckStop' = NoChan
    /\ callerPc' = [callerPc EXCEPT ![c] = "spawn"]
    /\ last' = NoOp
    /\ UNCHANGED <<nseals, Healthy, HcLock, allSealsHealthy, nchans, threads,
                   loopPc, probed, anyUnhealthy, tickPending, interval,
                   ticksAfterStop, ctxDone, storeVars, callerConf, crashed>>

\* StartHealthCheck, second critical section: a new ticker at the nominal
\* interval, a new stop channel stored in d.healthCheckStop, and the goroutine.
\* d.core.activeContext panics on a nil core, after the channel was stored.
StartHealthCheck_Spawn(c) ==
    /\ ~crashed
    /\ callerPc[c] = "spawn"
    /\ nchans' = nchans + 1
    /\ healthCheckStop' = nchans + 1
    /\ callerPc' = [callerPc EXCEPT ![c] = "idle"]
    /\ interval' = [interval EXCEPT ![nchans + 1] = sealHealthTestIntervalNominal]
    /\ IF core
         THEN /\ loopPc' = [loopPc EXCEPT ![nchans + 1] = "select"]
              /\ UNCHANGED crashed
         ELSE /\ crashed' = TRUE
              /\ UNCHANGED loopPc
    /\ last' = NoOp
    /\ UNCHANGED <<nseals, Healthy, HcLock, allSealsHealthy, closedChans, threads,
                   probed, anyUnhealthy, tickPending, ticksAfterStop, ctxDone,
                   storeVars, callerConf>>

\* the runtime's ticker of loop l sends a tick; the channel holds one tick and
\* further ticks are dropped while it is full
TimerFire(l) ==
    /\ ~crashed
    /\ loopPc[l] \in {"select", "check", "probe"}
    /\ ~tickPending[l]
    /\ tickPending' = [tickPending EXCEPT ![l] = TRUE]
    /\ last' = NoOp
    /\ UNCHANGED <<nseals, Healthy, HcLock, allSealsHealthy, healthCheckStop,
                   closedChans, nchans, threads, callerPc, loopPc, probed,
                   anyUnhealthy, interval, ticksAfterStop, ctxDone, storeVars, callerConf, crashed>>

\* select, case <-healthCheckStop: healthCheck.Stop() and return. The stopped
\* ticker is unreachable afterwards, a tick left in its channel goes with it.
LoopStop(l) ==
    /\ ~crashed
    /\ loopPc[l] = "select"
    /\ l \in closedChans
    /\ loopPc' = [loopPc EXCEPT ![l] = "exited"]
    /\ interval' = [interval EXCEPT ![l] = NoTicker]
    /\ tickPending' = [tickPending EXCEPT ![l] = FALSE]
    /\ last' = NoOp
    /\ UNCHANGED <<nseals, Healthy, HcLock, allSealsHealthy, healthCheckStop,
                   closedChans, nchans, threads, callerPc, probed, anyUnhealthy,
                   ticksAfterStop, ctxDone, storeVars, callerConf, crashed>>

\* select, case t := <-healthCheck.C: check(t) begins. When both cases are
\* ready the Go runtime picks one of them at random.
LoopTick(l) ==
    /\ ~crashed
    /\ loopPc[l] = "select"
    /\ tickPending[l]
    /\ tickPending' = [tickPending EXCEPT ![l] = FALSE]
    /\ loopPc' = [loopPc EXCEPT ![l] = "check"]
    /\ probed' = [probed EXCEPT ![l] = 0]
    /\ anyUnhealthy' = [anyUnhealthy EXCEPT ![l] = FALSE]
    /\ ticksAfterStop' = [ticksAfterStop EXCEPT ![l] =
                            IF l \in closedChans THEN Min(@ + 1, 2) ELSE @]
    /\ ctxDone' = [ctxDone EXCEPT ![l] = FALSE]
    /\ last' = NoOp
    /\ UNCHANGED <<nseals, Healthy, HcLock, allSealsHealthy, healthCheckStop,
                   closedChans, nchans, threads, callerPc, interval, storeVars, callerConf, crashed>>

\* the backend the loop probes next, in priority order
NextSeal(l) == probed[l] + 1

\* a loop that enters the probe without waiting for the backend's lock
ProbeLock_NoWait(l) ==
    /\ ~crashed
    /\ loopPc[l] = "check"
    /\ NextSeal(l) <= nseals
    /\ HcLock' = [HcLock EXCEPT ![NextSeal(l)] = l]
    /\ loopPc' = [loopPc EXCEPT ![l] = "probe"]
    /\ last' = NoOp
    /\ UNCHANGED <<nseals, Healthy, allSealsHealthy, healthCheckStop, closedChans,
                   nchans, threads, callerPc, probed, anyUnhealthy, tickPending,
                   interval, ticksAfterStop, ctxDone, storeVars, callerConf, crashed>>

\* w.HcLock.Lock() of the next backend
ProbeLock(l) ==
    /\ ~crashed
    /\ loopPc[l] = "check"
    /\ NextSeal(l) <= nseals
    /\ HcLock[NextSeal(l)] = 0
    /\ HcLock' = [HcLock EXCEPT ![NextSeal(l)] = l]
    /\ loopPc' = [loopPc EXCEPT ![l] = "probe"]
    /\ last' = NoOp
    /\ UNCHANGED <<nseals, Healthy, allSealsHealthy, healthCheckStop, closedChans,
                   nchans, threads, callerPc, probed, anyUnhealthy, tickPending,
                   interval, ticksAfterStop, ctxDone, storeVars, callerConf, crashed>>

\* the fail closure: the ticker is reset to the unhealthy interval only when
\* the backend was healthy; w.Healthy = false
FailInterval(cur, wHealthy) == IF wHealthy THEN sealHealthTestIntervalUnhealthy ELSE cur

\* the success branch: the ticker is reset to the nominal interval when the
\* backend was not healthy; w.Healthy = true
OkInterval(cur, wHealthy) == IF ~wHealthy THEN sealHealthTestIntervalNominal ELSE cur

\* the ticker's interval after the probe of a backend whose flag was wHealthy.
\* A Decrypt error calls fail twice (the nil plaintext differs from the test
\* value), the second time with w.Healthy already false.
ProbeInterval(cur, wHealthy, o) ==
    CASE o \in {"encErr", "encTimeout"} -> FailInterval(cur, wHealthy)
      [] o \in {"decErr", "decTimeout"} -> FailInterval(FailInterval(cur, wHealthy), FALSE)
      [] o = "mismatch" -> FailInterval(cur, wHealthy)
      [] o = "ok"       -> OkInterval(cur, wHealthy)

\* w.Healthy after the probe
ProbeHealthy(o) == o = "ok"

\* anyUnhealthy after the probe: set on the Encrypt error path only
ProbeAnyUnhealthy(cur, o) == cur \/ o \in {"encErr", "encTimeout"}

\* check(t) makes one context.WithTimeout(ctx, sealHealthTestTimeout) per tick
\* and hands it to the Encrypt of every backend; the context of a Decrypt is
\* derived from it and so ends no later. A call that blocks is cut off at that
\* deadline, which leaves the tick's context done.
ProbeCtxDone(done, o) == done \/ o \in {"encTimeout", "decTimeout"}

\* what the probe of a backend that would do o comes to under the tick's
\* context: with the context done, Encrypt returns the context's error at once
CtxOutcome(done, o) == IF done THEN "encErr" ELSE o

\* a probe whose failure ends the goroutine
ProbeRun_ReturnsOnFailure(l, o) ==
    /\ ~crashed
    /\ loopPc[l] = "probe"
    /\ LET w == NextSeal(l)
           r == CtxOutcome(ctxDone[l], o) IN
        /\ interval' = [interval EXCEPT ![l] = ProbeInterval(@, Healthy[w], r)]
        /\ Healthy' = [Healthy EXCEPT ![w] = ProbeHealthy(r)]
        /\ HcLock' = [HcLock EXCEPT ![w] = 0]
        /\ anyUnhealthy' = [anyUnhealthy EXCEPT ![l] = ProbeAnyUnhealthy(@, r)]
        /\ ctxDone' = [ctxDone EXCEPT ![l] = w < nseals /\ ProbeCtxDone(@, r)]
        /\ loopPc' = [loopPc EXCEPT ![l] = IF r = "ok" THEN "check" ELSE "exited"]
        /\ last' = NoOp
    /\ probed' = [probed EXCEPT ![l] = @ + 1]
    /\ UNCHANGED <<nseals, allSealsHealthy, healthCheckStop, closedChans, nchans,
                   threads, callerPc, tickPending, ticksAfterStop, storeVars, callerConf, crashed>>

\* the probe of the locked backend that does o, and w.HcLock.Unlock(). After
\* the last backend nothing reads the tick's context any more.
ProbeRun(l, o) ==
    /\ ~crashed
    /\ loopPc[l] = "probe"
    /\ LET w == NextSeal(l)
           r == CtxOutcome(ctxDone[l], o) IN
        /\ interval' = [interval EXCEPT ![l] = ProbeInterval(@, Healthy[w], r)]
        /\ Healthy' = [Healthy EXCEPT ![w] = ProbeHealthy(r)]
        /\ HcLock' = [HcLock EXCEPT ![w] = 0]
        /\ anyUnhealthy' = [anyUnhealthy EXCEPT ![l] = ProbeAnyUnhealthy(@, r)]
        /\ ctxDone' = [ctxDone EXCEPT ![l] = w < nseals /\ ProbeCtxDone(@, r)]
        /\ last' = NoOp
    /\ probed' = [probed EXCEPT ![l] = @ + 1]
    /\ loopPc' = [loopPc EXCEPT ![l] = "check"]
    /\ UNCHANGED <<nseals, allSealsHealthy, healthCheckStop, closedChans, nchans,
                   threads, callerPc, tickPending, ticksAfterStop, storeVars, callerConf, crashed>>

\* the aggregate flag the tick stores under d.hcLock
AggregateHealthy(any) == ~any

\* end of check(t): d.allSealsHealthy = !anyUnhealthy under d.hcLock, back to select
CheckFinish(l) ==
    /\ ~crashed
    /\ loopPc[l] = "check"
    /\ NextSeal(l) > nseals
    /\ allSealsHealthy' = AggregateHealthy(anyUnhealthy[l])
    /\ loopPc' = [loopPc EXCEPT ![l] = "select"]
    /\ probed' = [probed EXCEPT ![l] = 0]
    /\ anyUnhealthy' = [anyUnhealthy EXCEPT ![l] = FALSE]
    /\ ctxDone' = [ctxDone EXCEPT ![l] = FALSE]
    /\ last' = NoOp
    /\ UNCHANGED <<nseals, Healthy, HcLock, healthCheckStop, closedChans, nchans,
                   threads, callerPc, tickPending, interval, ticksAfterStop,
                   storeVars, callerConf, crashed>>

\* After NewAutoSeal and SetCore: no loop, the aggregate flag false, every
\* configured backend with whatever Healthy flag its wrapper was built with;
\* T are the threads that call Start and Stop.
InitThreads(T) ==
    /\ nseals \in Seals
    /\ Healthy \in {h \in [Seals -> BOOLEAN] : \A w \in Seals : w > nseals => h[w]}
    /\ HcLock = [w \in Seals |-> 0]
    /\ allSealsHealthy = FALSE
    /\ healthCheckStop = NoChan
    /\ closedChans = {}
    /\ nchans = 0
    /\ threads = T
    /\ callerPc = [c \in Callers |-> "idle"]
    /\ loopPc = [l \in Loops |-> "none"]
    /\ probed = [l \in Loops |-> 0]
    /\ anyUnhealthy = [l \in Loops |-> FALSE]
    /\ tickPending = [l \in Loops |-> FALSE]
    /\ interval = [l \in Loops |-> NoTicker]
    /\ ticksAfterStop = [l \in Loops |-> 0]
    /\ ctxDone = [l \in Loops |-> FALSE]
    /\ core = TRUE
    /\ sealed = FALSE
    /\ barrierSealConfigType = ComputeSealConfigType(nseals)
    /\ barrierConfig = NilConfig
    /\ recoveryConfig = NilConfig
    /\ physical = EmptyStorage
    /\ keyVer = 1
    /\ callerConf = [c \in Callers |-> NilConfig]
    /\ crashed = FALSE
    /\ last = NoOp

\* one thread calls Start and Stop, one call after the other
InitHealth == InitThreads({"c1"})

NextHealth ==
    \/ \E c \in Callers : StopHealthCheck(c)
    \/ \E c \in Callers : StartHealthCheck_Stop(c)
    \/ \E c \in Callers : StartHealthCheck_Spawn(c)
    \/ \E l \in Loops : TimerFire(l)
    \/ \E l \in Loops : LoopStop(l)
    \/ \E l \in Loops : LoopTick(l)
    \/ \E l \in Loops : ProbeLock(l)
    \/ \E l \in Loops, o \in ProbeOutcomes : ProbeRun(l, o)
    \/ \E l \in Loops : CheckFinish(l)

SpecHealth == InitHealth /\ [][NextHealth]_vars

\* The loop's lifecycle under a single configured backend
InitLifecycle == InitHealth /\ nseals = 1

SpecLifecycle == InitLifecycle /\ [][NextHealth]_vars

\* Scheduling: a goroutine that can run does run, Encrypt and Decrypt return
\* (each is bounded by sealHealthTestTimeout), a waiting Lock is granted once
\* the mutex is free, and select picks among its ready cases at random, so a
\* loop whose stop channel is closed does not pick the ticker forever.
LoopStep(l) == ProbeLock(l) \/ (\E o \in ProbeOutcomes : ProbeRun(l, o)) \/ CheckFinish(l)

FairLoop(l) == SF_vars(LoopStop(l)) /\ SF_vars(LoopStep(l))

SpecLifecycleFair == SpecLifecycle /\ \A l \in Loops : FairLoop(l)

\* Several threads call Start, Stop and Healthy at the same time; each critical
\* section under d.hcLock is one step, and a Start is two of them.
InitConcurrent == InitThreads(Callers) /\ nseals = 1

NextConcurrent == NextHealth \/ \E c \in Callers : autoSeal_Healthy(c)

SpecConcurrent == InitConcurrent /\ [][NextConcurrent]_vars

\* ======================================= configuration and key store
\* Every operation takes the point f at which one of its collaborator calls
\* (storage, seal backend) fails; "none" is the run without a failure.

\* errors, by the taxonomy of the operations' error returns
ErrNone == ""
ErrNotBound == "NotBoundError"        \* checkCore: "seal does not have a core set"
ErrConfig == "ConfigError"
ErrStorage == "StorageError"
ErrCrypto == "CryptoError"
ErrValidation == "ValidationError"
ErrNotFound == "NotFoundError"
ErrMismatch == "MismatchError"
ErrPanic == "panic"                    \* nil pointer dereference

\* what the callers pass and what an older server may have left in storage
ConfigArgs == {[Type |-> "shamir", id |-> 2]}
RecoveryKeyArgs == {NilBytes, <<>>, <<1>>}
StoredKeysArgs == {<< <<1>> >>, << <<>>, <<2>> >>}

\* SealConfigType.IsSameAs: comparison that ignores case
LowerCase(t) == IF t = "Recovery" THEN "recovery" ELSE t
IsSameAs(t, u) == LowerCase(t) = LowerCase(u)

\* seal.Access.IsUpToDate: the wrapped value carries the current key version
IsUpToDate(entry, ver) == entry.ver = ver

\* func (d *autoSeal) SetCore(core *Core)
SetCore ==
    /\ ~crashed
    /\ core' = TRUE
    /\ last' = [NoOp EXCEPT !.op = "SetCore"]
    /\ UNCHANGED <<healthVars, callerConf, sealed, barrierSealConfigType, barrierConfig,
                   recoveryConfig, physical, keyVer, crashed>>

\* the server seals or unseals (d.core.Sealed() changes)
SetSealed(b) ==
    /\ ~crashed
    /\ core
    /\ sealed # b
    /\ sealed' = b
    /\ last' = NoOp
    /\ UNCHANGED <<healthVars, callerConf, core, barrierSealConfigType, barrierConfig,
                   recoveryConfig, physical, keyVer, crashed>>

\* the seal backend rotates its key
RotateKey ==
    /\ ~crashed
    /\ keyVer < MaxKeyVer
    /\ keyVer' = keyVer + 1
    /\ last' = NoOp
    /\ UNCHANGED <<healthVars, callerConf, core, sealed, barrierSealConfigType, barrierConfig,
                   recoveryConfig, physical, crashed>>

\* ---- results: [err, phys, cache, conf, key, legacyRead, rootAttempted, puts]
\* puts: the storage paths the call wrote or deleted
Result(err, phys, cache) ==
    [err |-> err, phys |-> phys, cache |-> cache, conf |-> NilConfig,
     key |-> NilBytes, legacyRead |-> FALSE, rootAttempted |-> FALSE, puts |-> {},
     heldObj |-> NoObj, cacheObj |-> IF cache = NilConfig THEN NoObj ELSE CachedObj]

\* the config object the caller holds when the call returns: the returned
\* pointer, or the argument it passed
Holds(r, o) == [r EXCEPT !.heldObj = o]
\* the config object the cache holds when the call returns
Caches(r, o) == [r EXCEPT !.cacheObj = o]

\* a result that wrote path
Wrote(r, path) == [r EXCEPT !.puts = @ \cup {path}]

\* the stored keys' plaintext: every key preceded by its length
RECURSIVE MarshalKeys(_)
MarshalKeys(keys) ==
    IF keys = <<>> THEN <<>>
    ELSE <<Len(Head(keys))>> \o Head(keys) \o MarshalKeys(Tail(keys))

RECURSIVE UnmarshalKeys(_)
UnmarshalKeys(b) ==
    IF b = <<>> THEN <<>>
    ELSE <<SubSeq(b, 2, Head(b) + 1)>> \o UnmarshalKeys(SubSeq(b, Head(b) + 2, Len(b)))

\* writeStoredKeys: marshal the keys, wrap them with the backend's current key
\* and persist the entry
\* writeStoredKeys that puts the keys one after the other over the old list, so
\* that a failing put leaves the first new key in front of the old ones
writeStoredKeys_KeyByKey(phys, ver, keys, f) ==
    LET pe == phys.StoredBarrierKeysPath
        old == IF pe.kind = "absent" THEN <<>> ELSE UnmarshalKeys(pe.pt)
        mixed == <<keys[1]>> \o (IF old = <<>> THEN <<>> ELSE Tail(old)) IN
    IF f = "encrypt" THEN Result(ErrCrypto, phys, NilConfig)
    ELSE IF f = "put"
        THEN Wrote(Result(ErrStorage,
                          [phys EXCEPT !.StoredBarrierKeysPath =
                                           WrappedEntry(ver, MarshalKeys(mixed))],
                          NilConfig),
                   "StoredBarrierKeysPath")
    ELSE Wrote(Result(ErrNone,
                      [phys EXCEPT !.StoredBarrierKeysPath =
                                       WrappedEntry(ver, MarshalKeys(keys))],
                      NilConfig),
               "StoredBarrierKeysPath")
\* writeStoredKeys: marshal the list, wrap it and put it as one entry
writeStoredKeys(phys, ver, keys, f) ==
    IF f = "encrypt" THEN Result(ErrCrypto, phys, NilConfig)
    ELSE IF f = "put" THEN Result(ErrStorage, phys, NilConfig)
    ELSE Wrote(Result(ErrNone,
                      [phys EXCEPT !.StoredBarrierKeysPath =
                                       WrappedEntry(ver, MarshalKeys(keys))],
                      NilConfig),
               "StoredBarrierKeysPath")

\* readStoredKeys that drops the empty keys of the list
NonEmptyKey(k) == k # <<>>
readStoredKeys_DropsEmptyKeys(phys, f) ==
    IF f = "get" THEN Result(ErrStorage, phys, NilConfig)
    ELSE IF phys.StoredBarrierKeysPath.kind = "absent"
           THEN Result(ErrStorage, phys, NilConfig)
    ELSE IF f = "decrypt" THEN Result(ErrCrypto, phys, NilConfig)
    ELSE [Result(ErrNone, phys, NilConfig)
             EXCEPT !.key = SelectSeq(UnmarshalKeys(phys.StoredBarrierKeysPath.pt),
                                      NonEmptyKey)]
\* readStoredKeys: read the entry, unwrap it and unmarshal the keys
readStoredKeys(phys, f) ==
    IF f = "get" THEN Result(ErrStorage, phys, NilConfig)
    ELSE IF phys.StoredBarrierKeysPath.kind = "absent"
           THEN Result(ErrStorage, phys, NilConfig)
    ELSE IF f = "decrypt" THEN Result(ErrCrypto, phys, NilConfig)
    ELSE [Result(ErrNone, phys, NilConfig)
             EXCEPT !.key = UnmarshalKeys(phys.StoredBarrierKeysPath.pt)]

\* func (d *autoSeal) SetStoredKeys: d.core.physical with no checkCore
SetStoredKeysResult(bound, phys, ver, keys, f) ==
    IF ~bound THEN Result(ErrPanic, phys, NilConfig)
    ELSE writeStoredKeys(phys, ver, keys, f)

\* func (d *autoSeal) GetStoredKeys: d.core.physical with no checkCore
GetStoredKeysResult(bound, phys, f) ==
    IF ~bound THEN Result(ErrPanic, phys, NilConfig)
    ELSE readStoredKeys(phys, f)

\* func (d *autoSeal) SetRecoveryKey
SetRecoveryKeyResult(bound, phys, ver, key, f) ==
    IF ~bound THEN Result(ErrNotBound, phys, NilConfig)
    ELSE IF key = NilBytes THEN Result(ErrValidation, phys, NilConfig)
    ELSE IF f = "encrypt" THEN Result(ErrCrypto, phys, NilConfig)
    ELSE IF f = "put" THEN Result(ErrStorage, phys, NilConfig)
    ELSE Wrote(Result(ErrNone, [phys EXCEPT !.recoveryKeyPath = WrappedEntry(ver, key)],
                      NilConfig),
               "recoveryKeyPath")

\* func (d *autoSeal) getRecoveryKeyInternal
GetRecoveryKeyResult(bound, phys, f) ==
    IF ~bound THEN Result(ErrPanic, phys, NilConfig)
    ELSE IF f = "get" THEN Result(ErrStorage, phys, NilConfig)
    ELSE IF phys.recoveryKeyPath.kind = "absent" THEN Result(ErrNotFound, phys, NilConfig)
    ELSE IF f = "decrypt" THEN Result(ErrCrypto, phys, NilConfig)
    ELSE [Result(ErrNone, phys, NilConfig) EXCEPT !.key = phys.recoveryKeyPath.pt]

\* VerifyRecoveryKey that compares only as many bytes as the candidate has
VerifyRecoveryKeyResult_ComparesPrefix(bound, phys, key, f) ==
    IF key = NilBytes THEN Result(ErrValidation, phys, NilConfig)
    ELSE LET r == GetRecoveryKeyResult(bound, phys, f) IN
         IF r.err # ErrNone THEN r
         ELSE IF Len(key) > Len(r.key) \/ key # SubSeq(r.key, 1, Len(key))
            THEN Result(ErrMismatch, phys, NilConfig)
         ELSE Result(ErrNone, phys, NilConfig)
\* func (d *autoSeal) VerifyRecoveryKey: subtle.ConstantTimeCompare is 1 only
\* for byte strings of the same length and content
VerifyRecoveryKeyResult(bound, phys, key, f) ==
    IF key = NilBytes THEN Result(ErrValidation, phys, NilConfig)
    ELSE LET r == GetRecoveryKeyResult(bound, phys, f) IN
         IF r.err # ErrNone THEN r
         ELSE IF key # r.key THEN Result(ErrMismatch, phys, NilConfig)
         ELSE Result(ErrNone, phys, NilConfig)

\* func (d *autoSeal) upgradeRecoveryKey
UpgradeRecoveryKeyResult(bound, phys, ver, f) ==
    LET pe == phys.recoveryKeyPath IN
    IF ~bound THEN Result(ErrPanic, phys, NilConfig)
    ELSE IF f = "rk_get" THEN Result(ErrStorage, phys, NilConfig)
    ELSE IF pe.kind = "absent" THEN Result(ErrNotFound, phys, NilConfig)
    ELSE IF f = "rk_unmarshal" THEN Result(ErrCrypto, phys, NilConfig)
    ELSE IF f = "rk_uptodate" THEN Result(ErrCrypto, phys, NilConfig)
    ELSE IF IsUpToDate(pe, ver) THEN Result(ErrNone, phys, NilConfig)
    ELSE IF f = "rk_decrypt" THEN Result(ErrCrypto, phys, NilConfig)
    ELSE SetRecoveryKeyResult(bound, phys, ver, pe.pt,
                              CASE f = "rk_encrypt" -> "encrypt"
                                [] f = "rk_put" -> "put"
                                [] OTHER -> "none")

\* upgradeStoredKeys without the up-to-date test: every call re-wraps
UpgradeStoredKeysResult_AlwaysRewraps(bound, phys, ver, f) ==
    LET pe == phys.StoredBarrierKeysPath IN
    IF ~bound THEN Result(ErrPanic, phys, NilConfig)
    ELSE IF f = "sk_get" THEN Result(ErrStorage, phys, NilConfig)
    ELSE IF pe.kind = "absent" THEN Result(ErrNotFound, phys, NilConfig)
    ELSE IF f = "sk_unmarshal" THEN Result(ErrCrypto, phys, NilConfig)
    ELSE IF f = "sk_uptodate" THEN Result(ErrCrypto, phys, NilConfig)
    ELSE IF f = "sk_decrypt" THEN Result(ErrCrypto, phys, NilConfig)
    ELSE SetStoredKeysResult(bound, phys, ver, UnmarshalKeys(pe.pt),
                             CASE f = "sk_encrypt" -> "encrypt"
                               [] f = "sk_put" -> "put"
                               [] OTHER -> "none")
\* upgradeStoredKeys that re-wraps the unwrapped bytes as if they were one key
UpgradeStoredKeysResult_RewrapsBlob(bound, phys, ver, f) ==
    LET pe == phys.StoredBarrierKeysPath IN
    IF ~bound THEN Result(ErrPanic, phys, NilConfig)
    ELSE IF f = "sk_get" THEN Result(ErrStorage, phys, NilConfig)
    ELSE IF pe.kind = "absent" THEN Result(ErrNotFound, phys, NilConfig)
    ELSE IF f = "sk_unmarshal" THEN Result(ErrCrypto, phys, NilConfig)
    ELSE IF f = "sk_uptodate" THEN Result(ErrCrypto, phys, NilConfig)
    ELSE IF IsUpToDate(pe, ver) THEN Result(ErrNone, phys, NilConfig)
    ELSE IF f = "sk_decrypt" THEN Result(ErrCrypto, phys, NilConfig)
    ELSE SetStoredKeysResult(bound, phys, ver, <<pe.pt>>,
                             CASE f = "sk_encrypt" -> "encrypt"
                               [] f = "sk_put" -> "put"
                               [] OTHER -> "none")
\* func (d *autoSeal) upgradeStoredKeys
UpgradeStoredKeysResult(bound, phys, ver, f) ==
    LET pe == phys.StoredBarrierKeysPath IN
    IF ~bound THEN Result(ErrPanic, phys, NilConfig)
    ELSE IF f = "sk_get" THEN Result(ErrStorage, phys, NilConfig)
    ELSE IF pe.kind = "absent" THEN Result(ErrNotFound, phys, NilConfig)
    ELSE IF f = "sk_unmarshal" THEN Result(ErrCrypto, phys, NilConfig)
    ELSE IF f = "sk_uptodate" THEN Result(ErrCrypto, phys, NilConfig)
    ELSE IF IsUpToDate(pe, ver) THEN Result(ErrNone, phys, NilConfig)
    ELSE IF f = "sk_decrypt" THEN Result(ErrCrypto, phys, NilConfig)
    ELSE SetStoredKeysResult(bound, phys, ver, UnmarshalKeys(pe.pt),
                             CASE f = "sk_encrypt" -> "encrypt"
                               [] f = "sk_put" -> "put"
                               [] OTHER -> "none")

\* UpgradeKeys without the return on the recovery key's error
UpgradeKeysResult_ContinuesAfterFailure(bound, phys, ver, f) ==
    LET r1 == UpgradeRecoveryKeyResult(bound, phys, ver, f)
        r2 == UpgradeStoredKeysResult(bound, r1.phys, ver, f) IN
    IF r1.err = ErrPanic THEN r1
    ELSE [r2 EXCEPT !.rootAttempted = TRUE, !.puts = r1.puts \cup @,
                    !.err = IF r1.err # ErrNone THEN r1.err ELSE r2.err]
\* func (d *autoSeal) UpgradeKeys: the recovery key, then the stored keys
UpgradeKeysResult(bound, phys, ver, f) ==
    LET r1 == UpgradeRecoveryKeyResult(bound, phys, ver, f) IN
    IF r1.err # ErrNone THEN r1
    ELSE [UpgradeStoredKeysResult(bound, r1.phys, ver, f)
             EXCEPT !.rootAttempted = TRUE, !.puts = r1.puts \cup @]

\* BarrierConfig that caches the loaded config before it compares the types
BarrierConfigResult_CachesBeforeCheck(bound, cache, phys, type, f) ==
    LET conf == phys.barrierSealConfigPath IN
    IF cache # NilConfig THEN [Result(ErrNone, phys, cache) EXCEPT !.conf = cache]
    ELSE IF ~bound THEN Result(ErrNotBound, phys, cache)
    ELSE IF f = "get" THEN Result(ErrConfig, phys, cache)
    ELSE IF conf = NilConfig THEN Result(ErrNone, phys, cache)
    ELSE IF conf.Type # type THEN Result(ErrConfig, phys, conf)
    ELSE [Result(ErrNone, phys, conf) EXCEPT !.conf = conf]
\* BarrierConfig that returns a loaded config without caching it
BarrierConfigResult_DoesNotCache(bound, cache, phys, type, f) ==
    LET conf == phys.barrierSealConfigPath IN
    IF cache # NilConfig
        THEN Holds([Result(ErrNone, phys, cache) EXCEPT !.conf = cache], Clone(CachedObj))
    ELSE IF ~bound THEN Result(ErrNotBound, phys, cache)
    ELSE IF f = "get" THEN Result(ErrConfig, phys, cache)
    ELSE IF conf = NilConfig THEN Result(ErrNone, phys, cache)
    ELSE IF conf.Type # type THEN Result(ErrConfig, phys, cache)
    ELSE Holds([Result(ErrNone, phys, cache) EXCEPT !.conf = conf], Clone(LoadedObj))
\* BarrierConfig that returns the cached object itself
BarrierConfigResult_ReturnsCached(bound, cache, phys, type, f) ==
    LET conf == phys.barrierSealConfigPath IN
    IF cache # NilConfig
        THEN Holds([Result(ErrNone, phys, cache) EXCEPT !.conf = cache], CachedObj)
    ELSE IF ~bound THEN Result(ErrNotBound, phys, cache)
    ELSE IF f = "get" THEN Result(ErrConfig, phys, cache)
    ELSE IF conf = NilConfig THEN Result(ErrNone, phys, cache)
    ELSE IF conf.Type # type THEN Result(ErrConfig, phys, cache)
    ELSE Holds(Caches([Result(ErrNone, phys, conf) EXCEPT !.conf = conf], LoadedObj),
               Clone(LoadedObj))
\* func (d *autoSeal) BarrierConfig: a cache hit returns cfg.Clone(); a load
\* caches the unmarshalled object and returns conf.Clone()
BarrierConfigResult(bound, cache, phys, type, f) ==
    LET conf == phys.barrierSealConfigPath IN
    IF cache # NilConfig
        THEN Holds([Result(ErrNone, phys, cache) EXCEPT !.conf = cache], Clone(CachedObj))
    ELSE IF ~bound THEN Result(ErrNotBound, phys, cache)
    ELSE IF f = "get" THEN Result(ErrConfig, phys, cache)
    ELSE IF conf = NilConfig THEN Result(ErrNone, phys, cache)
    ELSE IF conf.Type # type THEN Result(ErrConfig, phys, cache)
    ELSE Holds(Caches([Result(ErrNone, phys, conf) EXCEPT !.conf = conf], LoadedObj),
               Clone(LoadedObj))

\* SetBarrierConfig that stores the cache before it persists
SetBarrierConfigResult_CachesBeforePersist(bound, cache, phys, type, conf, f) ==
    IF ~bound THEN Result(ErrNotBound, phys, cache)
    ELSE IF conf = NilConfig THEN Result(ErrNone, phys, NilConfig)
    ELSE LET stamped == [conf EXCEPT !.Type = type] IN
         IF f = "put" THEN Result(ErrConfig, phys, stamped)
         ELSE Wrote(Result(ErrNone, [phys EXCEPT !.barrierSealConfigPath = stamped],
                           stamped),
                    "barrierSealConfigPath")
\* SetBarrierConfig that deletes the durable entry on a nil config
SetBarrierConfigResult_NilDeletesEntry(bound, cache, phys, type, conf, f) ==
    IF ~bound THEN Result(ErrNotBound, phys, cache)
    ELSE IF conf = NilConfig
        THEN Wrote(Result(ErrNone, [phys EXCEPT !.barrierSealConfigPath = NilConfig],
                          NilConfig),
                   "barrierSealConfigPath")
    ELSE LET stamped == [conf EXCEPT !.Type = type] IN
         IF f = "put" THEN Result(ErrConfig, phys, cache)
         ELSE Wrote(Result(ErrNone, [phys EXCEPT !.barrierSealConfigPath = stamped],
                           stamped),
                    "barrierSealConfigPath")
\* func (d *autoSeal) SetBarrierConfig: the cache gets conf.Clone()
SetBarrierConfigResult(bound, cache, phys, type, conf, f) ==
    IF ~bound
        THEN Holds(Result(ErrNotBound, phys, cache), IF conf = NilConfig THEN NoObj ELSE ArgObj)
    ELSE IF conf = NilConfig THEN Result(ErrNone, phys, NilConfig)
    ELSE LET stamped == [conf EXCEPT !.Type = type] IN
         IF f = "put" THEN Holds(Result(ErrConfig, phys, cache), ArgObj)
         ELSE Holds(Caches(Wrote(Result(ErrNone,
                                        [phys EXCEPT !.barrierSealConfigPath = stamped],
                                        stamped),
                                 "barrierSealConfigPath"),
                           Clone(ArgObj)),
                    ArgObj)

\* RecoveryConfig without the Sealed() test before the read of the old path
RecoveryConfigResult_IgnoresSealed(bound, cache, phys, isSealed, f) ==
    LET conf == phys.recoverySealConfigPlaintextPath
        old == phys.recoverySealConfigPath IN
    IF cache # NilConfig THEN [Result(ErrNone, phys, cache) EXCEPT !.conf = cache]
    ELSE IF ~bound THEN Result(ErrNotBound, phys, cache)
    ELSE IF f = "get" THEN Result(ErrConfig, phys, cache)
    ELSE IF conf = NilConfig THEN
        IF f = "get_old"
            THEN [Result(ErrConfig, phys, cache) EXCEPT !.legacyRead = TRUE]
        ELSE IF old = NilConfig
            THEN [Result(ErrNone, phys, cache) EXCEPT !.legacyRead = TRUE]
        ELSE [Result(ErrPanic, phys, cache) EXCEPT !.legacyRead = TRUE]
    ELSE IF ~IsSameAs(SealConfigTypeRecovery, conf.Type) THEN Result(ErrConfig, phys, cache)
    ELSE [Result(ErrNone, phys, conf) EXCEPT !.conf = conf]
\* func (d *autoSeal) RecoveryConfig. The config read from the old path is
\* bound to a new variable of the inner block (conf, err := ...), so after the
\* block the outer conf is still nil and conf.Type dereferences it.
RecoveryConfigResult(bound, cache, phys, isSealed, f) ==
    LET conf == phys.recoverySealConfigPlaintextPath
        old == phys.recoverySealConfigPath IN
    IF cache # NilConfig
        THEN Holds([Result(ErrNone, phys, cache) EXCEPT !.conf = cache], Clone(CachedObj))
    ELSE IF ~bound THEN Result(ErrNotBound, phys, cache)
    ELSE IF f = "get" THEN Result(ErrConfig, phys, cache)
    ELSE IF conf = NilConfig THEN
        IF isSealed THEN Result(ErrNone, phys, cache)
        ELSE IF f = "get_old"
            THEN [Result(ErrConfig, phys, cache) EXCEPT !.legacyRead = TRUE]
        ELSE IF old = NilConfig
            THEN [Result(ErrNone, phys, cache) EXCEPT !.legacyRead = TRUE]
        ELSE [Result(ErrPanic, phys, cache) EXCEPT !.legacyRead = TRUE]
    ELSE IF ~IsSameAs(SealConfigTypeRecovery, conf.Type) THEN Result(ErrConfig, phys, cache)
    ELSE Holds(Caches([Result(ErrNone, phys, conf) EXCEPT !.conf = conf], LoadedObj),
               Clone(LoadedObj))

\* migrateRecoveryConfig that refuses to overwrite an entry at the plaintext path
MigrateRecoveryConfigResult_FailsIfPresent(phys, cache, f) ==
    LET be == phys.recoverySealConfigPath
        copied == [phys EXCEPT !.recoverySealConfigPlaintextPath = be] IN
    IF f = "mig_get" THEN Result(ErrStorage, phys, cache)
    ELSE IF be = NilConfig THEN Result(ErrNone, phys, cache)
    ELSE IF f = "mig_put" \/ phys.recoverySealConfigPlaintextPath # NilConfig
        THEN Result(ErrStorage, phys, cache)
    ELSE IF f = "mig_delete"
        THEN Wrote(Result(ErrStorage, copied, cache), "recoverySealConfigPlaintextPath")
    ELSE Wrote(Wrote(Result(ErrNone,
                            [copied EXCEPT !.recoverySealConfigPath = NilConfig], cache),
                     "recoverySealConfigPlaintextPath"),
               "recoverySealConfigPath")
\* migrateRecoveryConfig that copies the old entry and does not delete it
MigrateRecoveryConfigResult_KeepsLegacy(phys, cache, f) ==
    LET be == phys.recoverySealConfigPath
        copied == [phys EXCEPT !.recoverySealConfigPlaintextPath = be] IN
    IF f = "mig_get" THEN Result(ErrStorage, phys, cache)
    ELSE IF be = NilConfig THEN Result(ErrNone, phys, cache)
    ELSE IF f = "mig_put" THEN Result(ErrStorage, phys, cache)
    ELSE Wrote(Result(ErrNone, copied, cache), "recoverySealConfigPlaintextPath")
\* func (d *autoSeal) migrateRecoveryConfig: copy the entry of the old path to
\* the plaintext path, then delete the old entry
MigrateRecoveryConfigResult(phys, cache, f) ==
    LET be == phys.recoverySealConfigPath
        copied == [phys EXCEPT !.recoverySealConfigPlaintextPath = be] IN
    IF f = "mig_get" THEN Result(ErrStorage, phys, cache)
    ELSE IF be = NilConfig THEN Result(ErrNone, phys, cache)
    ELSE IF f = "mig_put" THEN Result(ErrStorage, phys, cache)
    ELSE IF f = "mig_delete"
        THEN Wrote(Result(ErrStorage, copied, cache), "recoverySealConfigPlaintextPath")
    ELSE Wrote(Wrote(Result(ErrNone,
                            [copied EXCEPT !.recoverySealConfigPath = NilConfig], cache),
                     "recoverySealConfigPlaintextPath"),
               "recoverySealConfigPath")

\* SetRecoveryConfig that goes on after a failed migration
SetRecoveryConfigResult_IgnoresMigrationError(bound, cache, phys, conf, f) ==
    IF ~bound THEN Result(ErrNotBound, phys, cache)
    ELSE LET m == MigrateRecoveryConfigResult(phys, cache, f)
             stamped == [conf EXCEPT !.Type = SealConfigTypeRecovery] IN
         IF conf = NilConfig THEN [m EXCEPT !.cache = NilConfig]
         ELSE IF f = "put" THEN [m EXCEPT !.err = ErrConfig]
         ELSE Wrote([m EXCEPT !.phys = [m.phys EXCEPT
                                           !.recoverySealConfigPlaintextPath = stamped],
                              !.cache = stamped],
                    "recoverySealConfigPlaintextPath")
\* func (d *autoSeal) SetRecoveryConfig: the cache gets conf.Clone()
SetRecoveryConfigResult(bound, cache, phys, conf, f) ==
    LET arg == IF conf = NilConfig THEN NoObj ELSE ArgObj IN
    IF ~bound THEN Holds(Result(ErrNotBound, phys, cache), arg)
    ELSE LET m == Holds(MigrateRecoveryConfigResult(phys, cache, f), arg)
             stamped == [conf EXCEPT !.Type = SealConfigTypeRecovery] IN
         IF m.err # ErrNone THEN m
         ELSE IF conf = NilConfig THEN Caches([m EXCEPT !.cache = NilConfig], NoObj)
         ELSE IF f = "put" THEN [m EXCEPT !.err = ErrConfig]
         ELSE Caches(Wrote([m EXCEPT !.phys = [m.phys EXCEPT
                                           !.recoverySealConfigPlaintextPath = stamped],
                                     !.cache = stamped],
                           "recoverySealConfigPlaintextPath"),
                     Clone(ArgObj))

\* ---- the operations as actions
\* what an operation leaves in last
Outcome(name, r) ==
    [NoOp EXCEPT !.op = name, !.err = r.err, !.retConf = r.conf, !.retKey = r.key,
                 !.legacyRead = r.legacyRead, !.rootAttempted = r.rootAttempted,
                 !.puts = r.puts, !.heldObj = r.heldObj, !.cacheObj = r.cacheObj]

ReadFails == {"none", "get", "decrypt"}
WriteFails == {"none", "encrypt", "put"}
UpgradeFails == {"none", "rk_get", "rk_unmarshal", "rk_uptodate", "rk_decrypt",
                 "rk_encrypt", "rk_put", "sk_get", "sk_unmarshal", "sk_uptodate",
                 "sk_decrypt", "sk_encrypt", "sk_put"}
MigrateFails == {"none", "put", "mig_get", "mig_put", "mig_delete"}

\* a key operation that takes a failure for a sign of an unhealthy seal
KeyOp_FailureClearsAggregate(name, r) ==
    /\ ~crashed
    /\ physical' = r.phys
    /\ crashed' = (r.err = ErrPanic)
    /\ last' = Outcome(name, r)
    /\ allSealsHealthy' = (allSealsHealthy /\ r.err = ErrNone)
    /\ UNCHANGED <<nseals, Healthy, HcLock, healthCheckStop, closedChans, nchans,
                   threads, callerPc, loopPc, probed, anyUnhealthy, tickPending,
                   interval, ticksAfterStop, ctxDone, core, sealed,
                   barrierSealConfigType, barrierConfig, recoveryConfig, keyVer,
                   callerConf>>
\* an operation on the keys: storage changes, the caches do not
KeyOp(name, r) ==
    /\ ~crashed
    /\ physical' = r.phys
    /\ crashed' = (r.err = ErrPanic)
    /\ last' = Outcome(name, r)
    /\ UNCHANGED <<healthVars, callerConf, core, sealed, barrierSealConfigType, barrierConfig,
                   recoveryConfig, keyVer>>

SetStoredKeys(keys, f) ==
    KeyOp("SetStoredKeys", SetStoredKeysResult(core, physical, keyVer, keys, f))
GetStoredKeys(f) ==
    KeyOp("GetStoredKeys", GetStoredKeysResult(core, physical, f))
SetRecoveryKey(key, f) ==
    KeyOp("SetRecoveryKey", SetRecoveryKeyResult(core, physical, keyVer, key, f))
RecoveryKey(f) ==
    KeyOp("RecoveryKey", GetRecoveryKeyResult(core, physical, f))
VerifyRecoveryKey(key, f) ==
    KeyOp("VerifyRecoveryKey", VerifyRecoveryKeyResult(core, physical, key, f))
UpgradeKeys(f) ==
    KeyOp("UpgradeKeys", UpgradeKeysResult(core, physical, keyVer, f))

BarrierConfig(f) ==
    LET r == BarrierConfigResult(core, barrierConfig, physical,
                                 barrierSealConfigType, f) IN
    /\ ~crashed
    /\ barrierConfig' = r.cache
    /\ physical' = r.phys
    /\ crashed' = (r.err = ErrPanic)
    /\ last' = Outcome("BarrierConfig", r)
    /\ UNCHANGED <<healthVars, callerConf, core, sealed, barrierSealConfigType, recoveryConfig, keyVer>>

SetBarrierConfig(conf, f) ==
    LET r == SetBarrierConfigResult(core, barrierConfig, physical,
                                    barrierSealConfigType, conf, f) IN
    /\ ~crashed
    /\ barrierConfig' = r.cache
    /\ physical' = r.phys
    /\ crashed' = (r.err = ErrPanic)
    /\ last' = Outcome("SetBarrierConfig", r)
    /\ UNCHANGED <<healthVars, callerConf, core, sealed, barrierSealConfigType, recoveryConfig, keyVer>>

RecoveryConfig(f) ==
    LET r == RecoveryConfigResult(core, recoveryConfig, physical, sealed, f) IN
    /\ ~crashed
    /\ recoveryConfig' = r.cache
    /\ physical' = r.phys
    /\ crashed' = (r.err = ErrPanic)
    /\ last' = Outcome("RecoveryConfig", r)
    /\ UNCHANGED <<healthVars, callerConf, core, sealed, barrierSealConfigType, barrierConfig, keyVer>>

SetRecoveryConfig(conf, f) ==
    LET r == SetRecoveryConfigResult(core, recoveryConfig, physical, conf, f) IN
    /\ ~crashed
    /\ recoveryConfig' = r.cache
    /\ physical' = r.phys
    /\ crashed' = (r.err = ErrPanic)
    /\ last' = Outcome("SetRecoveryConfig", r)
    /\ UNCHANGED <<healthVars, callerConf, core, sealed, barrierSealConfigType, barrierConfig, keyVer>>

\* the caller writes to the fields of the config object it holds after the
\* last call: the pointer a Get returned, or the object it passed to a Set. The
\* write reaches the cache when the cache holds that same object.
Tamper(conf) == [conf EXCEPT !.Type = "tampered"]

CallerMutates ==
    /\ ~crashed
    /\ last.op \in {"BarrierConfig", "SetBarrierConfig", "RecoveryConfig",
                    "SetRecoveryConfig"}
    /\ last.heldObj # NoObj
    /\ barrierConfig' = IF last.op \in {"BarrierConfig", "SetBarrierConfig"}
                            /\ last.cacheObj = last.heldObj
                         THEN Tamper(barrierConfig) ELSE barrierConfig
    /\ recoveryConfig' = IF last.op \in {"RecoveryConfig", "SetRecoveryConfig"}
                             /\ last.cacheObj = last.heldObj
                          THEN Tamper(recoveryConfig) ELSE recoveryConfig
    /\ last' = [NoOp EXCEPT !.op = "CallerMutates", !.heldObj = last.heldObj]
    /\ UNCHANGED <<healthVars, callerConf, core, sealed, barrierSealConfigType, physical, keyVer,
                   crashed>>

\* ---- BarrierConfig and SetBarrierConfig step by step. The call into storage
\* and the Store into d.barrierConfig are two steps of the calling thread, and
\* no lock is held from one to the other.
monitorVars == <<nseals, Healthy, HcLock, allSealsHealthy, healthCheckStop, closedChans,
                 nchans, threads, loopPc, probed, anyUnhealthy, tickPending, interval,
                 ticksAfterStop, ctxDone>>

\* BarrierConfig up to d.SetCachedBarrierConfig(conf): the cache hit, the
\* errors and the missing config return here, a loaded config is kept in conf
BarrierConfig_Read(c, f) ==
    LET r == BarrierConfigResult(core, barrierConfig, physical,
                                 barrierSealConfigType, f) IN
    /\ ~crashed
    /\ c \in threads
    /\ callerPc[c] = "idle"
    /\ IF r.cacheObj = LoadedObj
         THEN /\ callerPc' = [callerPc EXCEPT ![c] = "cacheLoaded"]
              /\ callerConf' = [callerConf EXCEPT ![c] = r.conf]
              /\ last' = NoOp
         ELSE /\ UNCHANGED <<callerPc, callerConf>>
              /\ last' = Outcome("BarrierConfig", r)
    /\ crashed' = (r.err = ErrPanic)
    /\ UNCHANGED <<monitorVars, storeVars>>

\* BarrierConfig, d.SetCachedBarrierConfig(conf); return conf.Clone()
BarrierConfig_Cache(c) ==
    /\ ~crashed
    /\ callerPc[c] = "cacheLoaded"
    /\ barrierConfig' = callerConf[c]
    /\ callerPc' = [callerPc EXCEPT ![c] = "idle"]
    /\ callerConf' = [callerConf EXCEPT ![c] = NilConfig]
    /\ last' = [NoOp EXCEPT !.op = "BarrierConfig", !.retConf = callerConf[c],
                            !.heldObj = Clone(LoadedObj), !.cacheObj = LoadedObj]
    /\ UNCHANGED <<monitorVars, core, sealed, barrierSealConfigType, recoveryConfig,
                   physical, keyVer, crashed>>

\* SetBarrierConfig up to d.SetCachedBarrierConfig(conf.Clone()): the unbound
\* core, the nil config (which clears the cache) and the failed write return
\* here, a written config is kept in conf
SetBarrierConfig_Persist(c, conf, f) ==
    LET r == SetBarrierConfigResult(core, barrierConfig, physical,
                                    barrierSealConfigType, conf, f) IN
    /\ ~crashed
    /\ c \in threads
    /\ callerPc[c] = "idle"
    /\ physical' = r.phys
    /\ IF r.puts # {}
         THEN /\ callerPc' = [callerPc EXCEPT ![c] = "cacheStamped"]
              /\ callerConf' = [callerConf EXCEPT ![c] = r.cache]
              /\ last' = NoOp
              /\ UNCHANGED barrierConfig
         ELSE /\ barrierConfig' = r.cache
              /\ last' = Outcome("SetBarrierConfig", r)
              /\ UNCHANGED <<callerPc, callerConf>>
    /\ crashed' = (r.err = ErrPanic)
    /\ UNCHANGED <<monitorVars, core, sealed, barrierSealConfigType, recoveryConfig,
                   keyVer>>

\* SetBarrierConfig, d.SetCachedBarrierConfig(conf.Clone()); return nil
SetBarrierConfig_Cache(c) ==
    /\ ~crashed
    /\ callerPc[c] = "cacheStamped"
    /\ barrierConfig' = callerConf[c]
    /\ callerPc' = [callerPc EXCEPT ![c] = "idle"]
    /\ callerConf' = [callerConf EXCEPT ![c] = NilConfig]
    /\ last' = [NoOp EXCEPT !.op = "SetBarrierConfig", !.puts = {"barrierSealConfigPath"},
                            !.heldObj = ArgObj, !.cacheObj = Clone(ArgObj)]
    /\ UNCHANGED <<monitorVars, core, sealed, barrierSealConfigType, recoveryConfig,
                   physical, keyVer, crashed>>

\* After NewAutoSeal, before SetCore: empty caches, no loop. Storage holds
\* what an earlier run of the server left there. T are the calling threads.
InitStoreThreads(T) ==
    /\ nseals \in {1, NumSeals}
    /\ Healthy = [w \in Seals |-> TRUE]
    /\ HcLock = [w \in Seals |-> 0]
    /\ allSealsHealthy = FALSE
    /\ healthCheckStop = NoChan
    /\ closedChans = {}
    /\ nchans = 0
    /\ threads = T
    /\ callerPc = [c \in Callers |-> "idle"]
    /\ loopPc = [l \in Loops |-> "none"]
    /\ probed = [l \in Loops |-> 0]
    /\ anyUnhealthy = [l \in Loops |-> FALSE]
    /\ tickPending = [l \in Loops |-> FALSE]
    /\ interval = [l \in Loops |-> NoTicker]
    /\ ticksAfterStop = [l \in Loops |-> 0]
    /\ ctxDone = [l \in Loops |-> FALSE]
    /\ core = FALSE
    /\ sealed \in BOOLEAN
    /\ barrierSealConfigType = ComputeSealConfigType(nseals)
    /\ barrierConfig = NilConfig
    /\ recoveryConfig = NilConfig
    /\ physical \in
         [StoredBarrierKeysPath :
              {AbsentEntry, WrappedEntry(1, MarshalKeys(<< <<1>> >>))},
          recoveryKeyPath : {AbsentEntry, WrappedEntry(1, <<2>>)},
          barrierSealConfigPath : {NilConfig, [Type |-> DeclaredSealType, id |-> 1],
                                   [Type |-> "AWSKMS", id |-> 1]},
          recoverySealConfigPlaintextPath :
              {NilConfig, [Type |-> SealConfigTypeRecovery, id |-> 1]},
          recoverySealConfigPath :
              {NilConfig, [Type |-> SealConfigTypeRecovery, id |-> 1]}]
    /\ keyVer = 1
    /\ callerConf = [c \in Callers |-> NilConfig]
    /\ crashed = FALSE
    /\ last = NoOp

InitStore == InitStoreThreads({"c1"})

KeyOps ==
    \/ RotateKey
    \/ \E keys \in StoredKeysArgs, f \in WriteFails : SetStoredKeys(keys, f)
    \/ \E f \in ReadFails : GetStoredKeys(f)
    \/ \E key \in RecoveryKeyArgs, f \in WriteFails : SetRecoveryKey(key, f)
    \/ \E f \in ReadFails : RecoveryKey(f)
    \/ \E key \in RecoveryKeyArgs, f \in ReadFails : VerifyRecoveryKey(key, f)
    \/ \E f \in UpgradeFails : UpgradeKeys(f)

ConfigOps ==
    \/ \E b \in BOOLEAN : SetSealed(b)
    \/ \E f \in {"none", "get"} : BarrierConfig(f)
    \/ \E conf \in ConfigArgs \cup {NilConfig}, f \in {"none", "put"} :
          SetBarrierConfig(conf, f)
    \/ \E f \in {"none", "get", "get_old"} : RecoveryConfig(f)
    \/ \E conf \in ConfigArgs \cup {NilConfig}, f \in MigrateFails :
          SetRecoveryConfig(conf, f)

\* the key lifecycle alone: no seal configuration in storage
InitKeys ==
    /\ InitStore
    /\ nseals = 1
    /\ ~sealed
    /\ physical.barrierSealConfigPath = NilConfig
    /\ physical.recoverySealConfigPlaintextPath = NilConfig
    /\ physical.recoverySealConfigPath = NilConfig
NextKeys == SetCore \/ KeyOps
SpecKeys == InitKeys /\ [][NextKeys]_vars

\* the seal configuration alone: no keys in storage
InitConfig ==
    /\ InitStore
    /\ physical.StoredBarrierKeysPath = AbsentEntry
    /\ physical.recoveryKeyPath = AbsentEntry
NextConfig == SetCore \/ ConfigOps \/ CallerMutates
SpecConfig == InitConfig /\ [][NextConfig]_vars

\* Several threads inside BarrierConfig and SetBarrierConfig at the same time
InitRace ==
    /\ InitStoreThreads(Callers)
    /\ ~sealed
    /\ physical.StoredBarrierKeysPath = AbsentEntry
    /\ physical.recoveryKeyPath = AbsentEntry
    /\ physical.recoverySealConfigPlaintextPath = NilConfig
    /\ physical.recoverySealConfigPath = NilConfig
NextRace ==
    \/ SetCore
    \/ \E c \in Callers, f \in {"none", "get"} : BarrierConfig_Read(c, f)
    \/ \E c \in Callers : BarrierConfig_Cache(c)
    \/ \E c \in Callers, conf \in ConfigArgs \cup {NilConfig}, f \in {"none", "put"} :
          SetBarrierConfig_Persist(c, conf, f)
    \/ \E c \in Callers : SetBarrierConfig_Cache(c)
SpecRace == InitRace /\ [][NextRace]_vars

\* configuration and keys together, for a single backend
InitSingle ==
    /\ InitStore
    /\ nseals = 1
    /\ physical.barrierSealConfigPath \in {NilConfig, [Type |-> DeclaredSealType, id |-> 1]}
NextStore == SetCore \/ KeyOps \/ ConfigOps
SpecStore == InitSingle /\ [][NextStore]_vars

\* ================================================== the manager as a whole
\* Health monitor and store together. The manager is bound to its core, storage
\* is empty, and all but one of the health-check loops the model has room for
\* were started, stopped and have exited; every call to the store is the run
\* without a failure.
InitManager ==
    /\ nseals \in {1, NumSeals}
    /\ Healthy = [w \in Seals |-> TRUE]
    /\ HcLock = [w \in Seals |-> 0]
    /\ allSealsHealthy = FALSE
    /\ healthCheckStop = NoChan
    /\ closedChans = 1..(MaxStarts - 1)
    /\ nchans = MaxStarts - 1
    /\ threads = {"c1"}
    /\ callerPc = [c \in Callers |-> "idle"]
    /\ loopPc = [l \in Loops |-> IF l < MaxStarts THEN "exited" ELSE "none"]
    /\ probed = [l \in Loops |-> 0]
    /\ anyUnhealthy = [l \in Loops |-> FALSE]
    /\ tickPending = [l \in Loops |-> FALSE]
    /\ interval = [l \in Loops |-> NoTicker]
    /\ ticksAfterStop = [l \in Loops |-> 0]
    /\ ctxDone = [l \in Loops |-> FALSE]
    /\ core = TRUE
    /\ sealed = FALSE
    /\ barrierSealConfigType = ComputeSealConfigType(nseals)
    /\ barrierConfig = NilConfig
    /\ recoveryConfig = NilConfig
    /\ physical = EmptyStorage
    /\ keyVer = 1
    /\ callerConf = [c \in Callers |-> NilConfig]
    /\ crashed = FALSE
    /\ last = NoOp

StoreCalls ==
    \/ SetCore
    \/ \E keys \in StoredKeysArgs : SetStoredKeys(keys, "none")
    \/ GetStoredKeys("none")
    \/ SetRecoveryKey(<<1>>, "none")
    \/ RecoveryKey("none")
    \/ VerifyRecoveryKey(<<1>>, "none")
    \/ UpgradeKeys("none")
    \/ BarrierConfig("none")
    \/ \E conf \in ConfigArgs : SetBarrierConfig(conf, "none")
    \/ RecoveryConfig("none")
    \/ \E conf \in ConfigArgs : SetRecoveryConfig(conf, "none")

NextManager == NextHealth \/ StoreCalls

SpecManager == InitManager /\ [][NextManager]_vars

\* ================================================= claims: health monitor

LiveLoop(l) == loopPc[l] \in {"select", "check", "probe"}
ConfiguredSeals == 1..nseals

\* C1: whenever a health tick completes, the aggregate flag equals the logical
\* AND of the Healthy flags of all configured backends, whatever the outcomes
\* of the tick's probes were.
C1_AggregateIsAndOfBackends ==
    [][\A l \in Loops : CheckFinish(l) =>
          (allSealsHealthy' = (\A w \in ConfiguredSeals : Healthy'[w]))]_vars

\* C2: with Start called again (sequential callers), at most one loop is bound
\* to an unfired stop signal and it is the manager's current one; every loop
\* that is no longer the current one has got its stop signal and exits.
OneActiveLoop ==
    /\ Cardinality({l \in Loops : LiveLoop(l) /\ l \notin closedChans}) <= 1
    /\ \A l \in Loops : LiveLoop(l) /\ l \notin closedChans => healthCheckStop = l
C2_RestartLeavesOneLoop ==
    /\ []OneActiveLoop
    /\ \A l \in Loops : (LiveLoop(l) /\ healthCheckStop # l) ~> (loopPc[l] = "exited")

\* C2 witness: Start was called twice, the first loop has exited and the
\* second, bound to the current stop signal, is performing a tick.
C2_Witness ==
    /\ nchans = 2
    /\ loopPc[1] = "exited"
    /\ loopPc[2] = "probe"
    /\ healthCheckStop = 2
    /\ callerPc["c1"] = "idle"

\* C3: single backend. A tick whose probe fails encryption leaves the backend
\* unhealthy and the ticker at the unhealthy interval, whatever the flag was
\* before; from there a tick whose probe fully succeeds leaves the backend
\* healthy and the ticker at the nominal interval.
C3_FailThenRecover ==
    [][\A l \in Loops :
         /\ (nseals = 1 /\ CheckFinish(l) /\ anyUnhealthy[l]) =>
               (~Healthy'[1] /\ interval'[l] = sealHealthTestIntervalUnhealthy)
         /\ (nseals = 1 /\ ProbeRun(l, "ok") /\ ~Healthy[1]
               /\ interval[l] = sealHealthTestIntervalUnhealthy) =>
               (Healthy'[1] /\ interval'[l] = sealHealthTestIntervalNominal)]_vars

\* C4: two or more backends. After every completed tick the ticker is at the
\* unhealthy interval if some backend is unhealthy, and a probe restores the
\* nominal interval only when it leaves every backend healthy.
C4_UnhealthyIntervalWhileAnyUnhealthy ==
    [][\A l \in Loops :
         /\ (nseals >= 2 /\ CheckFinish(l) /\ \E w \in ConfiguredSeals : ~Healthy'[w]) =>
               interval'[l] = sealHealthTestIntervalUnhealthy
         /\ (nseals >= 2 /\ (\E o \in ProbeOutcomes : ProbeRun(l, o))
               /\ interval[l] = sealHealthTestIntervalUnhealthy
               /\ interval'[l] = sealHealthTestIntervalNominal) =>
               (\A w \in ConfiguredSeals : Healthy'[w])]_vars

\* C8: Stop with no loop to stop (d.healthCheckStop is nil: before any Start,
\* or after a previous Stop) changes nothing: no channel is closed, no loop is
\* started, the aggregate flag and the stop-signal state stay as they were.
C8_StopWithoutLoopIsNoop ==
    [][\A c \in Callers : (StopHealthCheck(c) /\ healthCheckStop = NoChan) =>
          UNCHANGED <<healthVars, storeVars, crashed>>]_vars

\* C8 witness: Stop returned having found no stop channel, after an earlier
\* Stop whose loop has a tick result in the aggregate flag.
C8_Witness ==
    /\ last.op = "StopHealthCheck"
    /\ last.wasStop = NoChan
    /\ nchans >= 1
    /\ allSealsHealthy
    /\ ~crashed

\* C9: once its stop signal has fired, a loop begins at most one further tick.
C9_AtMostOneTickAfterStop == \A l \in Loops : ticksAfterStop[l] <= 1

\* C23: a probe that fails, in whatever way, leaves its loop running: the
\* goroutine goes on with the tick, its ticker stays armed, nothing panics, no
\* caller gets an error and nothing but the backend's Healthy flag, the tick's
\* locals and the ticker changes; a loop exits only once its stop channel is
\* closed.
C23_ProbeFailureContained ==
    [][\A l \in Loops :
         /\ \A o \in ProbeOutcomes \ {"ok"} : ProbeRun(l, o) =>
               /\ loopPc'[l] = "check"
               /\ interval'[l] # NoTicker
               /\ ~Healthy'[NextSeal(l)]
               /\ ~crashed'
               /\ last' = NoOp
               /\ UNCHANGED <<storeVars, callerPc, healthCheckStop, closedChans,
                              allSealsHealthy, tickPending>>
         /\ (loopPc[l] # "exited" /\ loopPc'[l] = "exited") => l \in closedChans]_vars

\* C23 witness: a loop whose probe failed is back in its select with the next
\* tick waiting, its stop channel open, the ticker at the unhealthy interval.
C23_Witness ==
    \E l \in Loops :
        /\ loopPc[l] = "select"
        /\ l \notin closedChans
        /\ healthCheckStop = l
        /\ ~Healthy[1]
        /\ interval[l] = sealHealthTestIntervalUnhealthy
        /\ tickPending[l]
        /\ ~crashed

\* C25: a backend whose Encrypt blocks until the timeout is marked unhealthy
\* and the tick goes on, and the probe of a responsive backend marks that
\* backend healthy, whatever happened to the backends probed before it in the
\* same tick.
C25_TimeoutsIsolatedPerBackend ==
    [][\A l \in Loops :
         /\ ProbeRun(l, "encTimeout") => (~Healthy'[NextSeal(l)] /\ loopPc'[l] = "check")
         /\ ProbeRun(l, "ok") => Healthy'[NextSeal(l)]]_vars

\* C26: in every state at most one loop is inside the probe of a backend, that
\* loop holds the backend's lock, and the lock is held by nobody else: a loop
\* that left the probe, with whatever outcome, has released it.
C26_ProbesMutuallyExclusive ==
    \A w \in Seals :
        /\ Cardinality({l \in Loops : loopPc[l] = "probe" /\ NextSeal(l) = w}) <= 1
        /\ \A l \in Loops : (loopPc[l] = "probe" /\ NextSeal(l) = w) <=> HcLock[w] = l

\* C26 witness: after a restart the old loop, its stop channel closed, is
\* inside the probe of the first backend while the new loop waits for that
\* backend's lock.
C26_Witness ==
    /\ loopPc[1] = "probe"
    /\ probed[1] = 0
    /\ 1 \in closedChans
    /\ HcLock[1] = 1
    /\ loopPc[2] = "check"
    /\ probed[2] = 0

\* C29: with two or more threads calling Start (and Stop) at the same time no
\* loop is orphaned: every running loop is bound to the manager's current stop
\* channel or its stop channel was closed, and once every call has returned at
\* most one loop is left with an open stop channel.
C29_NoOrphanLoop ==
    /\ \A l \in Loops : LiveLoop(l) => (healthCheckStop = l \/ l \in closedChans)
    /\ (\A c \in Callers : callerPc[c] = "idle") =>
          Cardinality({l \in Loops : LiveLoop(l) /\ l \notin closedChans}) <= 1

C5_FallbackReturnsLegacyConfig ==
    [][(/\ RecoveryConfig("none")
        /\ core /\ ~sealed
        /\ recoveryConfig = NilConfig
        /\ physical.recoverySealConfigPlaintextPath = NilConfig
        /\ physical.recoverySealConfigPath # NilConfig
        /\ IsSameAs(SealConfigTypeRecovery, physical.recoverySealConfigPath.Type))
       => (/\ last'.err = ErrNone
           /\ last'.retConf = physical.recoverySealConfigPath
           /\ last'.legacyRead
           /\ ~crashed')]_vars

\* C6: RecoveryConfig with an empty cache and an empty plaintext location
\* while the server is sealed returns nil without an error and without reading
\* the old path, and changes neither the cache nor any storage location,
\* whatever the old path holds.
C6_SealedSkipsFallback ==
    [][\A f \in {"none", "get_old"} :
         (/\ RecoveryConfig(f)
          /\ core /\ sealed
          /\ recoveryConfig = NilConfig
          /\ physical.recoverySealConfigPlaintextPath = NilConfig)
         => (/\ last'.err = ErrNone
             /\ last'.retConf = NilConfig
             /\ ~last'.legacyRead
             /\ UNCHANGED <<healthVars, storeVars, crashed>>)]_vars

\* C6 witness: the call returned nil while sealed, with a config at the old path.
C6_Witness ==
    /\ last.op = "RecoveryConfig"
    /\ last.err = ErrNone
    /\ last.retConf = NilConfig
    /\ ~last.legacyRead
    /\ core /\ sealed /\ ~crashed
    /\ recoveryConfig = NilConfig
    /\ physical.recoverySealConfigPlaintextPath = NilConfig
    /\ physical.recoverySealConfigPath # NilConfig

\* the operations that touch durable storage
StorageOp ==
    \/ \E keys \in StoredKeysArgs, f \in WriteFails : SetStoredKeys(keys, f)
    \/ \E f \in ReadFails : GetStoredKeys(f)
    \/ \E f \in UpgradeFails : UpgradeKeys(f)
    \/ \E key \in RecoveryKeyArgs, f \in WriteFails : SetRecoveryKey(key, f)
    \/ \E f \in ReadFails : RecoveryKey(f)
    \/ \E key \in RecoveryKeyArgs \ {NilBytes}, f \in ReadFails : VerifyRecoveryKey(key, f)
    \/ barrierConfig = NilConfig /\ \E f \in {"none", "get"} : BarrierConfig(f)
    \/ recoveryConfig = NilConfig /\ \E f \in {"none", "get", "get_old"} : RecoveryConfig(f)
    \/ \E conf \in ConfigArgs \cup {NilConfig}, f \in {"none", "put"} :
          SetBarrierConfig(conf, f)
    \/ \E conf \in ConfigArgs \cup {NilConfig}, f \in MigrateFails :
          SetRecoveryConfig(conf, f)

\* C7: before SetCore every operation that touches durable storage returns
\* the not-bound error as an error value and changes no state.
C7_UnboundReturnsNotBound ==
    [][(~core /\ StorageOp) =>
          (/\ last'.err = ErrNotBound
           /\ ~crashed'
           /\ UNCHANGED <<healthVars, storeVars>>)]_vars

\* a failure of the recovery key's upgrade under failure point f: the entry
\* is missing, or the read, the unmarshal or the up-to-date check fails, or
\* the entry is outdated and the unwrap, the wrap or the write fails
RecoveryUpgradeFails(f) ==
    \/ physical.recoveryKeyPath.kind = "absent"
    \/ f \in {"rk_get", "rk_unmarshal", "rk_uptodate"}
    \/ /\ ~IsUpToDate(physical.recoveryKeyPath, keyVer)
       /\ f \in {"rk_decrypt", "rk_encrypt", "rk_put"}

\* C10: UpgradeKeys upgrades the recovery key before the stored keys: when the
\* recovery key's upgrade fails it returns an error, does not attempt the
\* stored keys' upgrade and leaves the stored-keys entry as it was; and it
\* reaches the stored keys only with the recovery key up to date.
C10_RecoveryKeyFirst ==
    [][\A f \in UpgradeFails :
         /\ (UpgradeKeys(f) /\ core /\ RecoveryUpgradeFails(f)) =>
               (/\ last'.err \notin {ErrNone, ErrPanic}
                /\ ~last'.rootAttempted
                /\ ~crashed'
                /\ physical'.StoredBarrierKeysPath = physical.StoredBarrierKeysPath)
         /\ (UpgradeKeys(f) /\ core /\ last'.rootAttempted) =>
               IsUpToDate(physical'.recoveryKeyPath, keyVer)]_vars

\* C10 witness: UpgradeKeys failed on an outdated recovery key and left the
\* outdated stored keys untouched.
C10_Witness ==
    /\ last.op = "UpgradeKeys"
    /\ last.err \notin {ErrNone, ErrPanic}
    /\ ~last.rootAttempted
    /\ core /\ ~crashed
    /\ physical.recoveryKeyPath.kind = "wrapped"
    /\ ~IsUpToDate(physical.recoveryKeyPath, keyVer)
    /\ physical.StoredBarrierKeysPath.kind = "wrapped"
    /\ ~IsUpToDate(physical.StoredBarrierKeysPath, keyVer)

\* both wrapped artifacts carry the backend's current key version
BothUpToDate ==
    /\ physical.recoveryKeyPath.kind = "wrapped"
    /\ IsUpToDate(physical.recoveryKeyPath, keyVer)
    /\ physical.StoredBarrierKeysPath.kind = "wrapped"
    /\ IsUpToDate(physical.StoredBarrierKeysPath, keyVer)

\* C11: UpgradeKeys on artifacts that are both up to date, in particular a
\* second call right after a successful one, writes nothing to storage and
\* leaves both wrapped entries as they were.
C11_UpgradeIdempotent ==
    [][\A f \in UpgradeFails :
         (/\ UpgradeKeys(f)
          /\ core
          /\ BothUpToDate \/ (last.op = "UpgradeKeys" /\ last.err = ErrNone))
         => (last'.puts = {} /\ physical' = physical)]_vars

\* C11 witness: after a rotation and an upgrade, a further UpgradeKeys
\* succeeded without a write.
C11_Witness ==
    /\ last.op = "UpgradeKeys"
    /\ last.err = ErrNone
    /\ last.puts = {}
    /\ keyVer > 1
    /\ BothUpToDate

\* C12: after SetStoredKeys(keys) succeeds, GetStoredKeys returns exactly
\* keys: the same length, order and bytes, also for a one-byte key and for a
\* list with an empty key.
C12_StoredKeysRoundTrip ==
    [][\A keys \in StoredKeysArgs :
         (SetStoredKeys(keys, "none") /\ core)
         => /\ last'.err = ErrNone
            /\ LET got == GetStoredKeysResult(core', physical', "none") IN
               /\ got.err = ErrNone
               /\ got.key = keys
               /\ Len(got.key) = Len(keys)]_vars

\* C12 witness: GetStoredKeys returned a list with an empty key that only
\* SetStoredKeys can have stored.
C12_Witness ==
    /\ last.op = "GetStoredKeys"
    /\ last.err = ErrNone
    /\ last.retKey = << <<>>, <<2>> >>
    /\ core /\ ~crashed

\* C13: with a recovery key in storage, VerifyRecoveryKey(k) succeeds exactly
\* when k equals the stored key, returns the mismatch error for every other
\* candidate, and never changes the stored recovery key.
C13_VerifyIffEqual ==
    [][\A key \in RecoveryKeyArgs :
         (/\ VerifyRecoveryKey(key, "none")
          /\ core
          /\ physical.recoveryKeyPath.kind = "wrapped")
         => /\ physical' = physical
            /\ last'.err = IF key = physical.recoveryKeyPath.pt
                              THEN ErrNone ELSE ErrMismatch]_vars

\* C13 as amended: a nil candidate is rejected with the validation error; a
\* non-nil candidate succeeds exactly when it equals the stored key and gets
\* the mismatch error otherwise. The key that a successful SetRecoveryKey
\* stored is the one that verifies. No call writes to storage.
C13_VerifyIffEqualNonNil ==
    [][/\ \A key \in RecoveryKeyArgs :
            (/\ VerifyRecoveryKey(key, "none")
             /\ core
             /\ physical.recoveryKeyPath.kind = "wrapped")
            => last'.err = IF key = NilBytes THEN ErrValidation
                           ELSE IF key = physical.recoveryKeyPath.pt THEN ErrNone
                           ELSE ErrMismatch
       /\ \A key \in RecoveryKeyArgs, f \in ReadFails :
            VerifyRecoveryKey(key, f) => (physical' = physical /\ last'.puts = {})
       /\ \A key \in RecoveryKeyArgs \ {NilBytes} :
            (SetRecoveryKey(key, "none") /\ core)
            => \A k \in RecoveryKeyArgs \ {NilBytes} :
                  VerifyRecoveryKeyResult(core', physical', k, "none").err =
                      IF k = key THEN ErrNone ELSE ErrMismatch]_vars

\* C13 witness: a candidate verified against a key that SetRecoveryKey stored.
C13_Witness ==
    /\ last.op = "VerifyRecoveryKey"
    /\ last.err = ErrNone
    /\ core /\ ~crashed
    /\ physical.recoveryKeyPath.kind = "wrapped"
    /\ physical.recoveryKeyPath.pt = <<1>>

\* C14: SetRecoveryKey with a nil key or with a zero-length key fails with
\* the validation error and writes nothing to the recovery-key path.
C14_EmptyRecoveryKeyRejected ==
    [][\A key \in {NilBytes, <<>>}, f \in WriteFails :
         (SetRecoveryKey(key, f) /\ core)
         => /\ last'.err = ErrValidation
            /\ last'.puts = {}
            /\ physical'.recoveryKeyPath = physical.recoveryKeyPath]_vars

\* conf as SetRecoveryConfig persists it: conf.Type = RecoverySealConfigType()
StampedRecovery(conf) == [conf EXCEPT !.Type = SealConfigTypeRecovery]

\* C15: with only the old recovery-config location populated (plaintext
\* location and cache empty), a successful SetRecoveryConfig(newCfg) leaves the
\* old location absent, and a following RecoveryConfig returns newCfg with its
\* Type stamped, from the cache and also from storage, not the old value.
C15_MigrationScenario ==
    [][\A conf \in ConfigArgs :
         (/\ SetRecoveryConfig(conf, "none")
          /\ core
          /\ recoveryConfig = NilConfig
          /\ physical.recoverySealConfigPlaintextPath = NilConfig
          /\ physical.recoverySealConfigPath # NilConfig)
         => /\ last'.err = ErrNone
            /\ physical'.recoverySealConfigPath = NilConfig
            /\ \A isSealed \in BOOLEAN, cache \in {recoveryConfig', NilConfig} :
                 LET got == RecoveryConfigResult(core', cache, physical',
                                                 isSealed, "none") IN
                 /\ got.err = ErrNone
                 /\ got.conf = StampedRecovery(conf)
                 /\ got.conf # physical.recoverySealConfigPath]_vars

\* C15 witness: SetRecoveryConfig migrated the old entry away and stored newCfg.
C15_Witness ==
    /\ last.op = "SetRecoveryConfig"
    /\ last.err = ErrNone
    /\ "recoverySealConfigPath" \in last.puts
    /\ physical.recoverySealConfigPath = NilConfig
    /\ recoveryConfig \in {StampedRecovery(conf) : conf \in ConfigArgs}
    /\ physical.recoverySealConfigPlaintextPath = recoveryConfig

\* the migration fails under failure point f: the read of the old entry
\* fails, or there is an old entry and its copy or its deletion fails
MigrationFails(f) ==
    \/ f = "mig_get"
    \/ physical.recoverySealConfigPath # NilConfig /\ f \in {"mig_put", "mig_delete"}

\* C16: when the migration inside SetRecoveryConfig(cfg) fails, the call
\* returns an error, does not persist cfg (the plaintext location keeps its
\* value or holds the copy of the old entry) and leaves the cached recovery
\* config as it was, also when cfg is nil.
C16_MigrationFailureAborts ==
    [][\A conf \in ConfigArgs \cup {NilConfig}, f \in MigrateFails :
         (SetRecoveryConfig(conf, f) /\ core /\ MigrationFails(f))
         => /\ last'.err \notin {ErrNone, ErrPanic}
            /\ recoveryConfig' = recoveryConfig
            /\ physical'.recoverySealConfigPath = physical.recoverySealConfigPath
            /\ last'.puts \subseteq {"recoverySealConfigPlaintextPath"}
            /\ physical'.recoverySealConfigPlaintextPath =
                  IF last'.puts = {} THEN physical.recoverySealConfigPlaintextPath
                  ELSE physical.recoverySealConfigPath]_vars

\* C16 witness: a SetRecoveryConfig failed in the migration and the cache
\* still holds a config.
C16_Witness ==
    /\ last.op = "SetRecoveryConfig"
    /\ last.err = ErrStorage
    /\ core /\ ~crashed
    /\ recoveryConfig # NilConfig
    /\ physical.recoverySealConfigPath # NilConfig

\* the state a partial migration leaves: the old entry is copied and still there
PartiallyMigrated ==
    /\ last.op = "SetRecoveryConfig"
    /\ last.err = ErrStorage
    /\ last.puts = {"recoverySealConfigPlaintextPath"}
    /\ physical.recoverySealConfigPath # NilConfig
    /\ physical.recoverySealConfigPlaintextPath = physical.recoverySealConfigPath

\* C17: after a partial migration (old entry copied, delete failed),
\* SetRecoveryConfig run again with the same argument and no failure ends in
\* the storage and cache state of an uninterrupted run; and a migration with no
\* old entry writes nothing.
C17_MigrationRetryIdempotent ==
    [][/\ core =>
            \A conf \in ConfigArgs \cup {NilConfig} :
              LET direct == SetRecoveryConfigResult(core, recoveryConfig, physical,
                                                    conf, "none")
                  partial == SetRecoveryConfigResult(core, recoveryConfig, physical,
                                                     conf, "mig_delete")
                  retry == SetRecoveryConfigResult(core, partial.cache, partial.phys,
                                                   conf, "none")
                  mig == MigrateRecoveryConfigResult(physical, recoveryConfig, "none")
              IN
              /\ physical.recoverySealConfigPath # NilConfig =>
                    /\ partial.err # ErrNone
                    /\ retry.err = ErrNone
                    /\ retry.phys = direct.phys
                    /\ retry.cache = direct.cache
              /\ physical.recoverySealConfigPath = NilConfig =>
                    (mig.err = ErrNone /\ mig.phys = physical /\ mig.puts = {})
       /\ \A conf \in ConfigArgs \cup {NilConfig} :
            (PartiallyMigrated /\ core /\ SetRecoveryConfig(conf, "none"))
            => /\ last'.err = ErrNone
               /\ physical'.recoverySealConfigPath = NilConfig
               /\ recoveryConfig' =
                     IF conf = NilConfig THEN NilConfig ELSE StampedRecovery(conf)
               /\ physical'.recoverySealConfigPlaintextPath =
                     IF conf = NilConfig THEN physical.recoverySealConfigPath
                     ELSE StampedRecovery(conf)]_vars

\* C17 witness: a partial migration has happened.
C17_Witness == PartiallyMigrated /\ core /\ ~crashed

\* C18: BarrierConfig with an empty cache fails with the config error when the
\* storage read fails or when the loaded config's Type is not exactly the
\* manager's seal config type; the cache stays empty, and no call returns or
\* caches a config of another type.
C18_BarrierConfigTypeChecked ==
    [][\A f \in {"none", "get"} :
         /\ (/\ BarrierConfig(f)
             /\ core
             /\ barrierConfig = NilConfig
             /\ \/ f = "get"
                \/ /\ physical.barrierSealConfigPath # NilConfig
                   /\ physical.barrierSealConfigPath.Type # barrierSealConfigType)
            => /\ last'.err = ErrConfig
               /\ last'.retConf = NilConfig
               /\ barrierConfig' = NilConfig
               /\ physical' = physical
         /\ (BarrierConfig(f) /\ core /\ barrierConfig = NilConfig)
            => /\ last'.retConf # NilConfig => last'.retConf.Type = barrierSealConfigType
               /\ barrierConfig' # NilConfig => barrierConfig'.Type = barrierSealConfigType]_vars

\* C18 witness: BarrierConfig failed on a stored config whose Type differs
\* from the manager's only in case.
C18_Witness ==
    /\ last.op = "BarrierConfig"
    /\ last.err = ErrConfig
    /\ core /\ ~crashed
    /\ barrierConfig = NilConfig
    /\ barrierSealConfigType = DeclaredSealType
    /\ physical.barrierSealConfigPath # NilConfig
    /\ physical.barrierSealConfigPath.Type = "AWSKMS"

\* conf as SetBarrierConfig persists it: conf.Type = BarrierSealConfigType()
StampedBarrier(conf) == [conf EXCEPT !.Type = barrierSealConfigType]

\* C19: SetBarrierConfig(cfg) with a non-nil cfg whose persist step fails
\* returns an error and leaves the cached barrier config as it was; when the
\* persist succeeds the cache holds cfg with the manager's seal config type and
\* a following BarrierConfig returns it.
C19_SetBarrierConfigPersistThenCache ==
    [][\A conf \in ConfigArgs :
         /\ (SetBarrierConfig(conf, "put") /\ core)
            => /\ last'.err = ErrConfig
               /\ barrierConfig' = barrierConfig
               /\ physical' = physical
               /\ last'.puts = {}
         /\ (SetBarrierConfig(conf, "none") /\ core)
            => /\ last'.err = ErrNone
               /\ barrierConfig' = StampedBarrier(conf)
               /\ physical'.barrierSealConfigPath = StampedBarrier(conf)
               /\ \A f \in {"none", "get"} :
                    LET got == BarrierConfigResult(core', barrierConfig', physical',
                                                   barrierSealConfigType', f) IN
                    got.err = ErrNone /\ got.conf = StampedBarrier(conf)]_vars

\* C19 witness: a persist failure left a non-empty cache in place.
C19_Witness ==
    /\ last.op = "SetBarrierConfig"
    /\ last.err = ErrConfig
    /\ core /\ ~crashed
    /\ barrierConfig # NilConfig

\* C20: SetBarrierConfig(nil) clears the cached barrier config and writes or
\* deletes nothing in durable storage.
C20_ClearBarrierConfigKeepsStorage ==
    [][\A f \in {"none", "put"} :
         (SetBarrierConfig(NilConfig, f) /\ core)
         => /\ last'.err = ErrNone
            /\ barrierConfig' = NilConfig
            /\ physical' = physical
            /\ last'.puts = {}]_vars

\* C20 witness: the cache was cleared while the entry that an earlier
\* SetBarrierConfig persisted is still in storage.
C20_Witness ==
    /\ last.op = "SetBarrierConfig"
    /\ last.err = ErrNone
    /\ last.puts = {}
    /\ core /\ ~crashed
    /\ barrierConfig = NilConfig
    /\ physical.barrierSealConfigPath \in {StampedBarrier(conf) : conf \in ConfigArgs}

C27_UpgradeKeepsPlaintexts ==
    [][\A f \in UpgradeFails :
         (UpgradeKeys(f) /\ last'.err = ErrNone) =>
            /\ BothUpToDate'
            /\ GetRecoveryKeyResult(core', physical', "none").err = ErrNone
            /\ GetRecoveryKeyResult(core', physical', "none").key
                  = GetRecoveryKeyResult(core, physical, "none").key
            /\ GetStoredKeysResult(core', physical', "none").err = ErrNone
            /\ GetStoredKeysResult(core', physical', "none").key
                  = GetStoredKeysResult(core, physical, "none").key]_vars

\* C27 witness: an UpgradeKeys that re-wrapped both entries after a rotation
\* has succeeded, the stored keys being the list with an empty key.
C27_Witness ==
    /\ last.op = "UpgradeKeys"
    /\ last.err = ErrNone
    /\ last.puts = {"recoveryKeyPath", "StoredBarrierKeysPath"}
    /\ BothUpToDate
    /\ UnmarshalKeys(physical.StoredBarrierKeysPath.pt) = << <<>>, <<2>> >>

\* C24: the seal config type is "multiseal" when more than one backend is
\* configured and the single backend's declared type otherwise, as computed at
\* construction, and no operation of the manager (SetCore, the config and key
\* operations, UpgradeKeys, Start, Stop, the steps of a health tick) changes it.
C24_SealConfigTypeFixed ==
    /\ [](barrierSealConfigType =
             IF nseals > 1 THEN SealConfigTypeMultiseal ELSE DeclaredSealType)
    /\ [][barrierSealConfigType' = barrierSealConfigType]_vars

\* C24 witness: a manager of two backends that has run a health tick and has
\* stored a barrier config stamped with the multiseal type.
C24_Witness ==
    /\ nseals > 1
    /\ barrierSealConfigType = SealConfigTypeMultiseal
    /\ allSealsHealthy
    /\ barrierConfig # NilConfig
    /\ barrierConfig.Type = SealConfigTypeMultiseal
    /\ physical.StoredBarrierKeysPath.kind = "wrapped"

\* the names under which SetCore and the config and key operations record
\* themselves in last; every other step is one of the health monitor
StoreCallNames ==
    {"SetCore", "SetStoredKeys", "GetStoredKeys", "SetRecoveryKey", "RecoveryKey",
     "VerifyRecoveryKey", "UpgradeKeys", "BarrierConfig", "SetBarrierConfig",
     "RecoveryConfig", "SetRecoveryConfig"}

\* C28: a step of the health monitor (Start, Stop, a timer tick, a step of a
\* health tick) changes neither cached config nor any storage entry, and a
\* config or key operation changes no backend's Healthy flag and not the
\* aggregate flag.
C28_MonitorAndStoreDisjoint ==
    [][IF last'.op \in StoreCallNames
         THEN UNCHANGED <<Healthy, allSealsHealthy>>
         ELSE UNCHANGED <<barrierConfig, recoveryConfig, physical>>]_vars

\* C28 witness: a key operation has just returned while a health tick is
\* inside a probe, an earlier tick having set the aggregate flag, with both
\* caches filled and a recovery key in storage.
C28_Witness ==
    /\ last.op = "VerifyRecoveryKey"
    /\ \E l \in Loops : loopPc[l] = "probe"
    /\ allSealsHealthy
    /\ barrierConfig # NilConfig
    /\ recoveryConfig # NilConfig
    /\ physical.recoveryKeyPath.kind = "wrapped"

\* C21: the config object a caller holds after BarrierConfig, RecoveryConfig,
\* SetBarrierConfig or SetRecoveryConfig returned is never the object in the
\* cache, so a write of the caller to that object leaves both caches as they
\* were and the next BarrierConfig and RecoveryConfig return what they would
\* have returned without the write.
C21_ConfigsAreCopies ==
    /\ [](last.heldObj # NoObj => last.heldObj # last.cacheObj)
    /\ [][CallerMutates =>
            /\ barrierConfig' = barrierConfig
            /\ recoveryConfig' = recoveryConfig
            /\ BarrierConfigResult(core', barrierConfig', physical',
                                   barrierSealConfigType', "none").conf
                 = BarrierConfigResult(core, barrierConfig, physical,
                                       barrierSealConfigType, "none").conf
            /\ RecoveryConfigResult(core', recoveryConfig', physical', sealed', "none").conf
                 = RecoveryConfigResult(core, recoveryConfig, physical, sealed, "none").conf]_vars

\* C21 witness: the caller wrote to the object a BarrierConfig served from the
\* cache had returned, and the cache still holds the stamped config.
C21_Witness ==
    /\ last.op = "CallerMutates"
    /\ last.heldObj = Clone(CachedObj)
    /\ barrierConfig # NilConfig
    /\ barrierConfig.Type = barrierSealConfigType
    /\ recoveryConfig = NilConfig

\* C32: the aggregate flag is false at construction, whatever the backends'
\* Healthy flags are, and only the end of a health tick changes it: until a
\* tick completes it stays false, Start and Stop leave it alone, and Healthy()
\* returns it, so after Stop() Healthy() returns what the last completed tick
\* computed.
C32_AggregateSetByTicksOnly ==
    /\ ~allSealsHealthy
    /\ [][(allSealsHealthy' # allSealsHealthy =>
              \E l \in Loops : /\ loopPc[l] = "check"
                               /\ loopPc'[l] = "select"
                               /\ allSealsHealthy' = AggregateHealthy(anyUnhealthy[l]))
          /\ ((last'.op = "StopHealthCheck" \/ callerPc' # callerPc) =>
                 allSealsHealthy' = allSealsHealthy)
          /\ (last'.op = "Healthy" =>
                 (last'.retHealthy = allSealsHealthy /\ allSealsHealthy' = allSealsHealthy))
         ]_vars
\* Healthy() called after Stop(), every loop gone, returns the true the last tick computed
C32_Witness ==
    /\ last.op = "Healthy"
    /\ last.retHealthy
    /\ healthCheckStop = NoChan
    /\ closedChans # {}
    /\ \E l \in Loops : loopPc[l] = "exited"
    /\ \A l \in Loops : loopPc[l] \in {"none", "exited"}

\* C31: with several threads inside BarrierConfig (also loading from storage on
\* an empty cache) and SetBarrierConfig at the same time, once every call has
\* returned a non-empty cached barrier config is the config in storage.
C31_CacheNotOlderThanStorage ==
    ((\A c \in Callers : callerPc[c] = "idle") /\ barrierConfig # NilConfig)
        => barrierConfig = physical.barrierSealConfigPath

\* C33: clearing does not uninitialize. SetBarrierConfig(nil) right after a
\* successful SetBarrierConfig(cfg) empties the cache, and the next
\* BarrierConfig loads cfg (with its stamped Type) from storage, returns it, not
\* nil, and caches it again. SetRecoveryConfig(nil) with an entry at the old
\* location moves it to the plaintext location and empties the cache, and the
\* next RecoveryConfig returns that config and caches it.
C33_ClearingKeepsDurableConfig ==
    [][/\ (/\ SetBarrierConfig(NilConfig, "none")
            /\ last.op = "SetBarrierConfig"
            /\ last.err = ErrNone
            /\ last.puts = {"barrierSealConfigPath"})
           => /\ barrierConfig # NilConfig
              /\ barrierConfig' = NilConfig
              /\ LET got == BarrierConfigResult(core', barrierConfig', physical',
                                                barrierSealConfigType', "none") IN
                 /\ got.err = ErrNone
                 /\ got.conf = barrierConfig
                 /\ got.cache = barrierConfig
                 /\ got.cacheObj = LoadedObj
       /\ (/\ SetRecoveryConfig(NilConfig, "none")
            /\ core
            /\ physical.recoverySealConfigPath # NilConfig)
           => /\ last'.err = ErrNone
              /\ recoveryConfig' = NilConfig
              /\ physical'.recoverySealConfigPath = NilConfig
              /\ \A isSealed \in BOOLEAN :
                   LET got == RecoveryConfigResult(core', recoveryConfig', physical',
                                                   isSealed, "none") IN
                   /\ got.err = ErrNone
                   /\ got.conf = physical.recoverySealConfigPath
                   /\ got.cache = physical.recoverySealConfigPath
                   /\ got.cacheObj = LoadedObj]_vars

\* C33 witness: BarrierConfig found the cache empty and loaded from storage
\* the config that a SetBarrierConfig had stamped and persisted.
C33_Witness ==
    /\ last.op = "BarrierConfig"
    /\ last.err = ErrNone
    /\ last.cacheObj = LoadedObj
    /\ last.retConf \in {StampedBarrier(conf) : conf \in ConfigArgs}
    /\ barrierConfig = last.retConf
    /\ physical.barrierSealConfigPath = last.retConf

====
